---- MODULE Spec2Model ----
(***************************************************************************)
(* Model of the CS538 experiment-matrix pipeline:                          *)
(*   ns-3/scratch/run_matrix.py        (live mode: drive the engine)       *)
(*   ns-3/scratch/generate_manifest.py (rescan mode: rebuild the manifest) *)
(* Python strings are sequences of one-character strings, so that `in`,    *)
(* split, strip, int and float are computed character by character.        *)
(***************************************************************************)
EXTENDS Integers, Sequences, FiniteSets, TLC

VARIABLES
  prog,          \* which entry point runs: "live", "rescan", "parse" (a parser call),
                 \* or "scan" (a call of run_experiment)
  pc,            \* position of the running program
  workloads,     \* live: the WORKLOADS list in use
  outstandings,  \* live: the OUTSTANDING list in use
  sizes,         \* live: the SIZES list in use
  loopvar,       \* live: <<wi, oi, si>>, indices of the three nested for loops
  run_num,       \* live: main's run counter
  attempted,     \* live: the argument tuples run_experiment was called with, in order
  engine,        \* live: what each engine invocation returned, in order
  results,       \* both mains: the results list
  manifest,      \* both mains: the manifest file (NoManifest until written)
  exit_status,   \* <<>> while the process runs, then <<its exit status>>
  diag,          \* diagnostics printed by the last step
  listing,       \* rescan: contents of OUT_DIR, a function from entry name to entry
  todo,          \* rescan: the part of sorted(os.listdir(OUT_DIR)) not yet visited
  summary_file,  \* parse: the file handed to the summary parser (NoFile if it cannot be opened)
  live_ret,      \* parse: what extract_stats returned (NotCalled before the call)
  rescan_ret,    \* parse: what parse_summary returned or raised (NotCalled before the call)
  subproc,       \* scan: the completed engine process handed to run_experiment
  run_ret        \* scan: <<>> before run_experiment returns, then <<its return value>>

vars == <<prog, pc, workloads, outstandings, sizes, loopvar, run_num, attempted,
          engine, results, manifest, exit_status, diag, listing, todo,
          summary_file, live_ret, rescan_ret, subproc, run_ret>>

\* a function's return before it is called
NotCalled == [called |-> FALSE, raised |-> FALSE, value |-> <<>>, warned |-> FALSE]

----------------------------------------------------------------------------
(* Bounds of the model                                                     *)

\* most engine runs of one matrix (the product of the three list lengths)
MaxRuns == 4
\* most lines of a free-form summary text
MaxLines == 3
\* most entries of OUT_DIR in rescan mode
MaxEntries == 4
\* most lines of the stdout captured from one engine invocation
MaxStdout == 3

----------------------------------------------------------------------------
(* Python str operations                                                   *)

Min(S) == CHOOSE x \in S : \A y \in S : x <= y
Max(S) == CHOOSE x \in S : \A y \in S : x >= y

Digits == <<"0", "1", "2", "3", "4", "5", "6", "7", "8", "9">>
DigitSet == {Digits[i] : i \in 1..10}
DigitVal(c) == (CHOOSE i \in 1..10 : Digits[i] = c) - 1
Whitespace == {" ", "\t", "\r", "\n"}

\* sub occurs in s starting at position i
MatchAt(s, sub, i) ==
  /\ i >= 1
  /\ i + Len(sub) - 1 <= Len(s)
  /\ \A k \in 1..Len(sub) : s[i + k - 1] = sub[k]

\* s.find(sub) + 1 from position i on: the first position where sub occurs,
\* 0 if none
RECURSIVE FindFrom(_, _, _)
FindFrom(s, sub, i) ==
  IF i + Len(sub) - 1 > Len(s) THEN 0
  ELSE IF MatchAt(s, sub, i) THEN i
  ELSE FindFrom(s, sub, i + 1)
Find(s, sub) == FindFrom(s, sub, 1)

\* sub in s
Contains(s, sub) == Find(s, sub) # 0

\* s.split(sep), sep non-empty: always at least one piece
RECURSIVE Split(_, _)
Split(s, sep) ==
  LET i == Find(s, sep)
  IN IF i = 0 THEN <<s>>
     ELSE <<SubSeq(s, 1, i - 1)>> \o Split(SubSeq(s, i + Len(sep), Len(s)), sep)

\* s.lstrip(), s.rstrip(), s.strip()
RECURSIVE LStrip(_)
LStrip(s) == IF s # <<>> /\ Head(s) \in Whitespace THEN LStrip(Tail(s)) ELSE s
RECURSIVE RStrip(_)
RStrip(s) ==
  IF s # <<>> /\ s[Len(s)] \in Whitespace THEN RStrip(SubSeq(s, 1, Len(s) - 1)) ELSE s
Strip(s) == RStrip(LStrip(s))

RECURSIVE DigitsVal(_)
DigitsVal(ds) ==
  IF ds = <<>> THEN 0
  ELSE 10 * DigitsVal(SubSeq(ds, 1, Len(ds) - 1)) + DigitVal(ds[Len(ds)])

AllDigits(ds) == \A i \in 1..Len(ds) : ds[i] \in DigitSet

\* the sign of a numeric literal and the rest of it
SignOf(t) == IF t # <<>> /\ t[1] = "-" THEN -1 ELSE 1
Unsigned(t) == IF t # <<>> /\ t[1] \in {"-", "+"} THEN Tail(t) ELSE t

\* int(s): ValueError (ok = FALSE) unless s is, after strip(), an optionally
\* signed non-empty run of decimal digits.  Texts with "_" between digits are
\* not drawn by this model.
PyInt(s) ==
  LET t == Strip(s)
      u == Unsigned(t)
  IN IF u # <<>> /\ AllDigits(u)
     THEN [ok |-> TRUE, val |-> SignOf(t) * DigitsVal(u)]
     ELSE [ok |-> FALSE, val |-> 0]

\* int(float(s)), had the conversion been round(float(s)) (half up)
PyIntOfFloat_round(s) ==
  LET t == Strip(s)
      u == Unsigned(t)
      dot == Find(u, <<".">>)
      ip == IF dot = 0 THEN u ELSE SubSeq(u, 1, dot - 1)
      fp == IF dot = 0 THEN <<>> ELSE SubSeq(u, dot + 1, Len(u))
      up == IF fp # <<>> /\ AllDigits(fp) /\ DigitVal(fp[1]) >= 5 THEN 1 ELSE 0
  IN IF AllDigits(ip) /\ AllDigits(fp) /\ Len(ip) + Len(fp) > 0
     THEN [ok |-> TRUE, val |-> SignOf(t) * (DigitsVal(ip) + up)]
     ELSE [ok |-> FALSE, val |-> 0]

\* int(float(s)): float() accepts, after strip(), an optional sign and digits
\* with at most one ".", at least one digit in all; int() then truncates
\* toward zero, i.e. drops the fraction.  Exponents, "inf", "nan" and "_" are
\* not drawn by this model.
PyIntOfFloat(s) ==
  LET t == Strip(s)
      u == Unsigned(t)
      dot == Find(u, <<".">>)
      ip == IF dot = 0 THEN u ELSE SubSeq(u, 1, dot - 1)
      fp == IF dot = 0 THEN <<>> ELSE SubSeq(u, dot + 1, Len(u))
  IN IF AllDigits(ip) /\ AllDigits(fp) /\ Len(ip) + Len(fp) > 0
     THEN [ok |-> TRUE, val |-> SignOf(t) * DigitsVal(ip)]
     ELSE [ok |-> FALSE, val |-> 0]

\* str(n) for a natural number n
RECURSIVE Dec(_)
Dec(n) == IF n < 10 THEN <<Digits[n + 1]>> ELSE Dec(n \div 10) \o <<Digits[(n % 10) + 1]>>

\* "\n".join(lines)
RECURSIVE JoinLines(_)
JoinLines(lines) ==
  IF lines = <<>> THEN <<>>
  ELSE IF Len(lines) = 1 THEN lines[1]
  ELSE lines[1] \o <<"\n">> \o JoinLines(Tail(lines))

\* os.path.join(a, b) for a relative b
PathJoin(a, b) ==
  IF a = <<>> \/ a[Len(a)] = "/" THEN a \o b ELSE a \o <<"/">> \o b

----------------------------------------------------------------------------
(* The summary parsers                                                     *)

\* NoStats, had the four variables started at -1
NoStats_unset == [p50 |-> -1, p95 |-> -1, p99 |-> -1, completed |-> -1,
                  in_ns_section |-> FALSE, exc |-> FALSE]

\* p50 = p95 = p99 = completed = 0, and no exception yet
NoStats == [p50 |-> 0, p95 |-> 0, p99 |-> 0, completed |-> 0,
            in_ns_section |-> FALSE, exc |-> FALSE]

StatsTuple(s) == <<s.p50, s.p95, s.p99, s.completed>>

\* run_matrix.py, first loop of extract_stats; an exception ends the scan
RECURSIVE es_completed_loop(_, _)
es_completed_loop(lines, s) ==
  IF lines = <<>> \/ s.exc THEN s
  ELSE LET line == Head(lines)
       IN IF Contains(line, <<"C", "o", "m", "p", "l", "e", "t", "e", "d", ":">>)
          THEN LET v == PyInt(Split(Strip(Split(line, <<":">>)[2]), <<"/">>)[1])
               IN IF v.ok
                  THEN es_completed_loop(Tail(lines), [s EXCEPT !.completed = v.val])
                  ELSE [s EXCEPT !.exc = TRUE]
          ELSE es_completed_loop(Tail(lines), s)

\* es_latency_loop, had the label lines been parsed whatever the section
RECURSIVE es_latency_loop_noflag(_, _)
es_latency_loop_noflag(lines, s) ==
  IF lines = <<>> \/ s.exc THEN s
  ELSE LET line == Head(lines)
           v == PyIntOfFloat(Strip(Split(line, <<":">>)[2]))
           rest == Tail(lines)
       IN IF Contains(line, <<"L", "a", "t", "e", "n", "c", "y", " ", "(", "n", "s", ")", ":">>)
          THEN es_latency_loop_noflag(rest, [s EXCEPT !.in_ns_section = TRUE])
          ELSE IF Contains(line, <<"L", "a", "t", "e", "n", "c", "y", " ", "(", "μ", "s", ")", ":">>)
          THEN es_latency_loop_noflag(rest, [s EXCEPT !.in_ns_section = FALSE])
          ELSE IF Contains(line, <<"p", "5", "0", ":">>)
          THEN IF v.ok THEN es_latency_loop_noflag(rest, [s EXCEPT !.p50 = v.val])
               ELSE [s EXCEPT !.exc = TRUE]
          ELSE IF Contains(line, <<"p", "9", "5", ":">>)
          THEN IF v.ok THEN es_latency_loop_noflag(rest, [s EXCEPT !.p95 = v.val])
               ELSE [s EXCEPT !.exc = TRUE]
          ELSE IF Contains(line, <<"p", "9", "9", ":">>)
          THEN IF v.ok THEN es_latency_loop_noflag(rest, [s EXCEPT !.p99 = v.val])
               ELSE [s EXCEPT !.exc = TRUE]
          ELSE es_latency_loop_noflag(rest, s)

\* run_matrix.py, second loop of extract_stats
RECURSIVE es_latency_loop(_, _)
es_latency_loop(lines, s) ==
  IF lines = <<>> \/ s.exc THEN s
  ELSE LET line == Head(lines)
           v == PyIntOfFloat(Strip(Split(line, <<":">>)[2]))
           rest == Tail(lines)
       IN IF Contains(line, <<"L", "a", "t", "e", "n", "c", "y", " ", "(", "n", "s", ")", ":">>)
          THEN es_latency_loop(rest, [s EXCEPT !.in_ns_section = TRUE])
          ELSE IF Contains(line, <<"L", "a", "t", "e", "n", "c", "y", " ", "(", "μ", "s", ")", ":">>)
          THEN es_latency_loop(rest, [s EXCEPT !.in_ns_section = FALSE])
          ELSE IF s.in_ns_section
          THEN IF Contains(line, <<"p", "5", "0", ":">>)
               THEN IF v.ok THEN es_latency_loop(rest, [s EXCEPT !.p50 = v.val])
                    ELSE [s EXCEPT !.exc = TRUE]
               ELSE IF Contains(line, <<"p", "9", "5", ":">>)
               THEN IF v.ok THEN es_latency_loop(rest, [s EXCEPT !.p95 = v.val])
                    ELSE [s EXCEPT !.exc = TRUE]
               ELSE IF Contains(line, <<"p", "9", "9", ":">>)
               THEN IF v.ok THEN es_latency_loop(rest, [s EXCEPT !.p99 = v.val])
                    ELSE [s EXCEPT !.exc = TRUE]
               ELSE es_latency_loop(rest, s)
          ELSE es_latency_loop(rest, s)

\* extract_stats, had the except clause reset the four variables to 0
extract_stats_reset(file) ==
  LET s == IF ~file.exists THEN [NoStats EXCEPT !.exc = TRUE]
           ELSE LET lines == Split(file.content, <<"\n">>)
                IN es_latency_loop(lines, es_completed_loop(lines, NoStats))
  IN [called |-> TRUE, raised |-> FALSE,
      value |-> IF s.exc THEN <<0, 0, 0, 0>> ELSE StatsTuple(s), warned |-> s.exc]

\* run_matrix.py extract_stats(summary_path), given what open() finds there:
\* the except clause prints a warning and execution falls through to the
\* return of the four variables as they stand.
extract_stats(file) ==
  LET s == IF ~file.exists THEN [NoStats EXCEPT !.exc = TRUE]
           ELSE LET lines == Split(file.content, <<"\n">>)
                IN es_latency_loop(lines, es_completed_loop(lines, NoStats))
  IN [called |-> TRUE, raised |-> FALSE, value |-> StatsTuple(s), warned |-> s.exc]

\* ps_completed_loop, had it taken the total after the slash
RECURSIVE ps_completed_loop_total(_, _)
ps_completed_loop_total(lines, s) ==
  IF lines = <<>> \/ s.exc THEN s
  ELSE LET line == Head(lines)
       IN IF Contains(line, <<"C", "o", "m", "p", "l", "e", "t", "e", "d", ":">>)
          THEN LET parts == Split(Strip(Split(line, <<":">>)[2]), <<"/">>)
                   v == IF Len(parts) < 2 THEN [ok |-> FALSE, val |-> 0]
                        ELSE PyInt(parts[2])
               IN IF v.ok
                  THEN ps_completed_loop_total(Tail(lines), [s EXCEPT !.completed = v.val])
                  ELSE [s EXCEPT !.exc = TRUE]
          ELSE ps_completed_loop_total(Tail(lines), s)

\* generate_manifest.py, first loop of parse_summary
RECURSIVE ps_completed_loop(_, _)
ps_completed_loop(lines, s) ==
  IF lines = <<>> \/ s.exc THEN s
  ELSE LET line == Head(lines)
       IN IF Contains(line, <<"C", "o", "m", "p", "l", "e", "t", "e", "d", ":">>)
          THEN LET v == PyInt(Split(Strip(Split(line, <<":">>)[2]), <<"/">>)[1])
               IN IF v.ok
                  THEN ps_completed_loop(Tail(lines), [s EXCEPT !.completed = v.val])
                  ELSE [s EXCEPT !.exc = TRUE]
          ELSE ps_completed_loop(Tail(lines), s)

\* generate_manifest.py, second loop of parse_summary
RECURSIVE ps_latency_loop(_, _)
ps_latency_loop(lines, s) ==
  IF lines = <<>> \/ s.exc THEN s
  ELSE LET line == Head(lines)
           v == PyIntOfFloat(Strip(Split(line, <<":">>)[2]))
           rest == Tail(lines)
       IN IF Contains(line, <<"L", "a", "t", "e", "n", "c", "y", " ", "(", "n", "s", ")", ":">>)
          THEN ps_latency_loop(rest, [s EXCEPT !.in_ns_section = TRUE])
          ELSE IF Contains(line, <<"L", "a", "t", "e", "n", "c", "y", " ", "(", "μ", "s", ")", ":">>)
          THEN ps_latency_loop(rest, [s EXCEPT !.in_ns_section = FALSE])
          ELSE IF s.in_ns_section
          THEN IF Contains(line, <<"p", "5", "0", ":">>)
               THEN IF v.ok THEN ps_latency_loop(rest, [s EXCEPT !.p50 = v.val])
                    ELSE [s EXCEPT !.exc = TRUE]
               ELSE IF Contains(line, <<"p", "9", "5", ":">>)
               THEN IF v.ok THEN ps_latency_loop(rest, [s EXCEPT !.p95 = v.val])
                    ELSE [s EXCEPT !.exc = TRUE]
               ELSE IF Contains(line, <<"p", "9", "9", ":">>)
               THEN IF v.ok THEN ps_latency_loop(rest, [s EXCEPT !.p99 = v.val])
                    ELSE [s EXCEPT !.exc = TRUE]
               ELSE ps_latency_loop(rest, s)
          ELSE ps_latency_loop(rest, s)

\* generate_manifest.py parse_summary(summary_path): no handler, so an
\* exception of open() or of a conversion leaves the function (raised).
parse_summary(file) ==
  LET s == IF ~file.exists THEN [NoStats EXCEPT !.exc = TRUE]
           ELSE LET lines == Split(file.content, <<"\n">>)
                IN ps_latency_loop(lines, ps_completed_loop(lines, NoStats))
  IN IF s.exc THEN [called |-> TRUE, raised |-> TRUE, value |-> <<>>, warned |-> FALSE]
     ELSE [called |-> TRUE, raised |-> FALSE, value |-> StatsTuple(s), warned |-> FALSE]

----------------------------------------------------------------------------
(* Summary artifacts handed to the parsers                                 *)

\* a field of the artifact is <<>> when its line is absent, else <<value>>
Absent == <<>>

\* a decimal literal: integer part ip, and, when it has a decimal point, the
\* digits after it
Literal(x) == IF x.point THEN Dec(x.ip) \o <<".">> \o x.frac ELSE Dec(x.ip)
Trunc(x) == x.ip

CompletedChoices == {Absent, <<[n |-> 9000, total |-> 10000]>>, <<[n |-> 0, total |-> 5]>>}
P50Choices == {Absent, <<[ip |-> 1234, point |-> TRUE, frac |-> <<"0">>]>>,
               <<[ip |-> 7, point |-> FALSE, frac |-> <<>>]>>}
P95Choices == {Absent, <<[ip |-> 5678, point |-> TRUE, frac |-> <<"0">>]>>,
               <<[ip |-> 0, point |-> TRUE, frac |-> <<"9">>]>>}
P99Choices == {Absent, <<[ip |-> 9999, point |-> TRUE, frac |-> <<"0">>]>>,
               <<[ip |-> 12, point |-> TRUE, frac |-> <<"7", "5">>]>>}
FieldChoices == [completed : CompletedChoices, p50 : P50Choices,
                 p95 : P95Choices, p99 : P99Choices]

\* the summary artifact of section 6 of the specification: a Completed line,
\* the nanosecond section, then the microsecond section; a field that is
\* Absent has no line
Opt(present, line) == IF present THEN <<line>> ELSE <<>>
WellFormed(f) ==
  JoinLines(
    <<<<"=", "=", "=", " ", "R", "u", "n", " ", "S", "u", "m", "m", "a", "r", "y", " ", "=", "=", "=">>>>
    \o Opt(f.completed # Absent,
           <<"C", "o", "m", "p", "l", "e", "t", "e", "d", ":", " ">> \o Dec(f.completed[1].n) \o <<"/">> \o Dec(f.completed[1].total))
    \o <<<<"L", "a", "t", "e", "n", "c", "y", " ", "(", "n", "s", ")", ":">>>>
    \o Opt(f.p50 # Absent, <<" ", " ", "p", "5", "0", ":", " ">> \o Literal(f.p50[1]))
    \o Opt(f.p95 # Absent, <<" ", " ", "p", "9", "5", ":", " ">> \o Literal(f.p95[1]))
    \o Opt(f.p99 # Absent, <<" ", " ", "p", "9", "9", ":", " ">> \o Literal(f.p99[1]))
    \o <<<<"L", "a", "t", "e", "n", "c", "y", " ", "(", "μ", "s", ")", ":">>, <<" ", " ", "p", "5", "0", ":", " ", "1", ".", "5">>, <<" ", " ", "p", "9", "5", ":", " ", "5", ".", "2", "5">>, <<" ", " ", "p", "9", "9", ":", " ", "9", ".", "0">>, <<>>>>)

\* what section 4.3 says the parser returns for WellFormed(f)
TruncOrZero(x) == IF x = Absent THEN 0 ELSE Trunc(x[1])
Expected(f) ==
  << TruncOrZero(f.p50), TruncOrZero(f.p95), TruncOrZero(f.p99),
     IF f.completed = Absent THEN 0 ELSE f.completed[1].n >>

\* lines of free-form texts: headers, values, and values no conversion accepts
LinePool ==
  { <<"L", "a", "t", "e", "n", "c", "y", " ", "(", "n", "s", ")", ":">>, <<"L", "a", "t", "e", "n", "c", "y", " ", "(", "μ", "s", ")", ":">>, <<"p", "5", "0", ":", " ", "1", "2", ".", "5">>, <<"p", "9", "5", ":", " ", "4", "0">>, <<"p", "9", "9", ":", " ", "n", "/", "a">>,
    <<"C", "o", "m", "p", "l", "e", "t", "e", "d", ":", " ", "3", "/", "4">>, <<"C", "o", "m", "p", "l", "e", "t", "e", "d", ":", " ", "3", ".", "0", "/", "4">>, <<" ", "p", "5", "0", ":", " ", "9", "9", ".", "9", " ">> }

RECURSIVE SeqsUpTo(_, _)
SeqsUpTo(S, n) ==
  IF n = 0 THEN {<<>>}
  ELSE LET shorter == SeqsUpTo(S, n - 1)
       IN shorter \cup {Append(q, x) : q \in shorter, x \in S}

\* a file as open() finds it: absent (or unreadable), or its content
NoFile == [exists |-> FALSE, content |-> <<>>]
File(text) == [exists |-> TRUE, content |-> text]

FreeTexts == {JoinLines(q) : q \in SeqsUpTo(LinePool, MaxLines)}
\* the well-formed artifact of every choice of fields
WellFormedText == [f \in FieldChoices |-> WellFormed(f)]
WellFormedTexts == {WellFormedText[f] : f \in FieldChoices}
SummaryFiles == {NoFile} \cup {File(t) : t \in WellFormedTexts \cup FreeTexts}

----------------------------------------------------------------------------
(* run_matrix.py: the live-mode orchestrator                               *)

LINK_RATE == "10Gbps"
LINK_DELAY == "50us"
MTU == 1500
QDISC == "none"
WORKLOADS == <<"pingpong", "rpc">>
OUTSTANDING == <<1, 8, 32>>
SIZES == << <<256, 256>>, <<1024, 1024>>, <<4096, 4096>> >>

Prefixes(list) == {SubSeq(list, 1, n) : n \in 0..Len(list)}

\* Python's None, and the test for it
None == [none |-> TRUE]
IsNone(r) == "none" \in DOMAIN r

\* open(path) on a set of files, each [path, content]
Open(files, path) ==
  IF \E f \in files : f.path = path
  THEN File((CHOOSE f \in files : f.path = path).content)
  ELSE NoFile

\* marker_scan, had the content after a marker been kept untrimmed
RECURSIVE marker_scan_nostrip(_, _)
marker_scan_nostrip(lines, m) ==
  IF lines = <<>> THEN m
  ELSE LET line == Head(lines)
       IN IF Contains(line, <<"R", "u", "n", " ", "I", "D", ":">>)
          THEN marker_scan_nostrip(Tail(lines),
                 [m EXCEPT !.run_id = <<Split(line, <<"R", "u", "n", " ", "I", "D", ":">>)[2]>>])
          ELSE IF Contains(line, <<"R", "e", "s", "u", "l", "t", "s", " ", "w", "r", "i", "t", "t", "e", "n", " ", "t", "o", ":">>)
          THEN marker_scan_nostrip(Tail(lines),
                 [m EXCEPT !.out_path = <<Split(line, <<"R", "e", "s", "u", "l", "t", "s", " ", "w", "r", "i", "t", "t", "e", "n", " ", "t", "o", ":">>)[2]>>])
          ELSE marker_scan_nostrip(Tail(lines), m)

\* lines 83-89 of run_experiment: the scan of the captured stdout.  A variable
\* is <<>> while None and <<text>> once assigned.
RECURSIVE marker_scan(_, _)
marker_scan(lines, m) ==
  IF lines = <<>> THEN m
  ELSE LET line == Head(lines)
       IN IF Contains(line, <<"R", "u", "n", " ", "I", "D", ":">>)
          THEN marker_scan(Tail(lines),
                 [m EXCEPT !.run_id = <<Strip(Split(line, <<"R", "u", "n", " ", "I", "D", ":">>)[2])>>])
          ELSE IF Contains(line, <<"R", "e", "s", "u", "l", "t", "s", " ", "w", "r", "i", "t", "t", "e", "n", " ", "t", "o", ":">>)
          THEN marker_scan(Tail(lines),
                 [m EXCEPT !.out_path = <<Strip(Split(line, <<"R", "e", "s", "u", "l", "t", "s", " ", "w", "r", "i", "t", "t", "e", "n", " ", "t", "o", ":">>)[2])>>])
          ELSE marker_scan(Tail(lines), m)

\* Not, had line 91 compared the two variables with None
Not_is_none(x) == x = <<>>

\* Python's `not x` for x a str or None
Not(x) == x = <<>> \/ x[1] = <<>>

\* read_results, had it skipped a run whose directory lacks an artifact
read_results_strict(workload, outstanding, req_bytes, rsp_bytes, run_id, out_path, proc) ==
  LET config_path == PathJoin(out_path, <<"c", "o", "n", "f", "i", "g", ".", "j", "s", "o", "n">>)
      summary_path == PathJoin(out_path, <<"s", "u", "m", "m", "a", "r", "y", ".", "t", "x", "t">>)
      stats == extract_stats(Open(proc.files, summary_path))
  IN IF ~Open(proc.files, config_path).exists \/ ~Open(proc.files, summary_path).exists
     THEN [ret |-> None, out |-> << <<"Skipping: missing files", out_path, <<>> >> >>]
     ELSE [ret |-> [run_id |-> run_id,
                    workload |-> workload,
                    outstanding |-> outstanding,
                    req_bytes |-> req_bytes,
                    rsp_bytes |-> rsp_bytes,
                    linkRate |-> LINK_RATE,
                    linkDelay |-> LINK_DELAY,
                    mtu |-> MTU,
                    qdisc |-> QDISC,
                    p50_ns |-> stats.value[1],
                    p95_ns |-> stats.value[2],
                    p99_ns |-> stats.value[3],
                    completed |-> stats.value[4],
                    out_dir |-> out_path,
                    elapsed_s |-> proc.elapsed],
           out |-> <<>>]

\* lines 96-122 of run_experiment: both markers were found; the summary is
\* read from the directory the output named and the result is built.
\* config_path is computed on line 101 and never used.
read_results(workload, outstanding, req_bytes, rsp_bytes, run_id, out_path, proc) ==
  LET summary_path == PathJoin(out_path, <<"s", "u", "m", "m", "a", "r", "y", ".", "t", "x", "t">>)
      stats == extract_stats(Open(proc.files, summary_path))
  IN [ret |-> [run_id |-> run_id,
               workload |-> workload,
               outstanding |-> outstanding,
               req_bytes |-> req_bytes,
               rsp_bytes |-> rsp_bytes,
               linkRate |-> LINK_RATE,
               linkDelay |-> LINK_DELAY,
               mtu |-> MTU,
               qdisc |-> QDISC,
               p50_ns |-> stats.value[1],
               p95_ns |-> stats.value[2],
               p99_ns |-> stats.value[3],
               completed |-> stats.value[4],
               out_dir |-> out_path,
               elapsed_s |-> proc.elapsed],
      out |-> IF stats.warned
              THEN << <<"Warning: Could not parse summary file", <<>>, <<>> >> >>
              ELSE <<>>]

\* run_experiment, had subprocess.run been called without check=True
run_experiment_nocheck(workload, outstanding, req_bytes, rsp_bytes, proc) ==
  LET m == marker_scan(Split(proc.stdout, <<"\n">>), [run_id |-> <<>>, out_path |-> <<>>])
  IN IF Not(m.run_id) \/ Not(m.out_path)
     THEN [ret |-> None,
           out |-> << <<"Warning: Could not extract run ID from output", proc.stdout, <<>> >> >>]
     ELSE read_results(workload, outstanding, req_bytes, rsp_bytes,
                       m.run_id[1], m.out_path[1], proc)

\* run_experiment, had line 91 tested out_path alone
run_experiment_out_only(workload, outstanding, req_bytes, rsp_bytes, proc) ==
  IF proc.returncode # 0
  THEN [ret |-> None,
        out |-> << <<"Run failed!", proc.stdout, proc.stderr>> >>]
  ELSE
    LET m == marker_scan(Split(proc.stdout, <<"\n">>), [run_id |-> <<>>, out_path |-> <<>>])
    IN IF Not(m.out_path)
       THEN [ret |-> None,
             out |-> << <<"Warning: Could not extract run ID from output", proc.stdout, <<>> >> >>]
       ELSE read_results(workload, outstanding, req_bytes, rsp_bytes,
                         IF m.run_id = <<>> THEN <<>> ELSE m.run_id[1], m.out_path[1], proc)

\* run_experiment(workload, outstanding, req_bytes, rsp_bytes, ...) from the
\* point where subprocess.run returns with what the engine did (its return
\* code, captured output, the files it left and the time it took):
\* [ret: the value returned, out: the diagnostics printed]
run_experiment(workload, outstanding, req_bytes, rsp_bytes, proc) ==
  IF proc.returncode # 0
  THEN [ret |-> None,
        out |-> << <<"Run failed!", proc.stdout, proc.stderr>> >>]
  ELSE
    LET m == marker_scan(Split(proc.stdout, <<"\n">>), [run_id |-> <<>>, out_path |-> <<>>])
    IN IF Not(m.run_id) \/ Not(m.out_path)
       THEN [ret |-> None,
             out |-> << <<"Warning: Could not extract run ID from output", proc.stdout, <<>> >> >>]
       ELSE read_results(workload, outstanding, req_bytes, rsp_bytes,
                         m.run_id[1], m.out_path[1], proc)

\* csv.DictWriter(f, fieldnames).writeheader() and .writerows(results): a key
\* of the header that a row lacks is written as the empty string; a row with
\* a key outside the header raises ValueError
NoManifest == [written |-> FALSE, raised |-> FALSE, header |-> <<>>, rows |-> <<>>]
DictWriter(fieldnames, rows) ==
  LET names == {fieldnames[j] : j \in 1..Len(fieldnames)}
      bad == {i \in 1..Len(rows) : DOMAIN rows[i] \ names # {}}
      n == IF bad = {} THEN Len(rows) ELSE Min(bad) - 1
  IN [written |-> TRUE,
      raised |-> bad # {},
      header |-> fieldnames,
      rows |-> [i \in 1..n |->
                 [j \in 1..Len(fieldnames) |->
                    IF fieldnames[j] \in DOMAIN rows[i] THEN rows[i][fieldnames[j]] ELSE <<>>]]]

\* write_manifest(results) of run_matrix.py
live_fieldnames ==
  <<"run_id", "workload", "outstanding", "req_bytes", "rsp_bytes", "linkRate",
    "linkDelay", "mtu", "qdisc", "p50_ns", "p95_ns", "p99_ns", "completed",
    "elapsed_s", "out_dir">>
write_manifest(rows) == DictWriter(live_fieldnames, rows)

\* what the engine can do in one invocation
GoodSummary ==
  <<"=", "=", "=", " ", "R", "u", "n", " ", "S", "u", "m", "m", "a", "r", "y", " ", "=", "=", "=", "\n", "C", "o", "m", "p", "l", "e", "t", "e", "d", ":", " ", "9", "0", "0", "0", "/", "1", "0", "0", "0", "0", "\n", "L", "a", "t", "e", "n", "c", "y", " ", "(", "n", "s", ")", ":", "\n", " ", " ", "p", "5", "0", ":", " ", "1", "2", "3", "4", ".", "0", "\n", " ", " ", "p", "9", "5", ":", " ", "5", "6", "7", "8", ".", "0", "\n", " ", " ", "p", "9", "9", ":", " ", "9", "9", "9", "9", ".", "0", "\n", "L", "a", "t", "e", "n", "c", "y", " ", "(", "μ", "s", ")", ":", "\n", " ", " ", "p", "5", "0", ":", " ", "1", ".", "5", "\n", " ", " ", "p", "9", "5", ":", " ", "5", ".", "2", "5", "\n", " ", " ", "p", "9", "9", ":", " ", "9", ".", "0", "\n">>
BrokenSummary ==
  <<"C", "o", "m", "p", "l", "e", "t", "e", "d", ":", " ", "4", "2", "/", "1", "0", "0", "\n", "L", "a", "t", "e", "n", "c", "y", " ", "(", "n", "s", ")", ":", "\n", " ", " ", "p", "5", "0", ":", " ", "7", "7", ".", "7", "\n", " ", " ", "p", "9", "5", ":", " ", "n", "/", "a", "\n", " ", " ", "p", "9", "9", ":", " ", "9", "9", ".", "0", "\n">>
BothMarkers ==
  <<"S", "t", "a", "r", "t", "i", "n", "g", " ", "s", "i", "m", "u", "l", "a", "t", "i", "o", "n", "\n", "R", "u", "n", " ", "I", "D", ":", " ", "2", "0", "2", "5", "0", "1", "0", "1", "-", "a", "1", "\n", "R", "e", "s", "u", "l", "t", "s", " ", "w", "r", "i", "t", "t", "e", "n", " ", "t", "o", ":", " ", "o", "u", "t", "/", "s", "i", "m", "/", "2", "0", "2", "5", "0", "1", "0", "1", "-", "a", "1", "\n">>
ConfigPath == <<"o", "u", "t", "/", "s", "i", "m", "/", "2", "0", "2", "5", "0", "1", "0", "1", "-", "a", "1", "/", "c", "o", "n", "f", "i", "g", ".", "j", "s", "o", "n">>
SummaryPath == <<"o", "u", "t", "/", "s", "i", "m", "/", "2", "0", "2", "5", "0", "1", "0", "1", "-", "a", "1", "/", "s", "u", "m", "m", "a", "r", "y", ".", "t", "x", "t">>
ConfigJson ==
  <<"{", "\"", "r", "u", "n", "I", "d", "\"", ":", " ", "\"", "2", "0", "2", "5", "0", "1", "0", "1", "-", "a", "1", "\"", ",", " ", "\"", "w", "o", "r", "k", "l", "o", "a", "d", "\"", ":", " ", "\"", "r", "p", "c", "\"", ",", " ", "\"", "o", "u", "t", "s", "t", "a", "n", "d", "i", "n", "g", "\"", ":", " ", "8", ",", " ", "\"", "r", "e", "q", "B", "y", "t", "e", "s", "\"", ":", " ", "1", "0", "2", "4", ",", " ", "\"", "r", "s", "p", "B", "y", "t", "e", "s", "\"", ":", " ", "1", "0", "2", "4", ",", " ", "\"", "l", "i", "n", "k", "R", "a", "t", "e", "\"", ":", " ", "\"", "1", "0", "G", "b", "p", "s", "\"", ",", " ", "\"", "l", "i", "n", "k", "D", "e", "l", "a", "y", "\"", ":", " ", "\"", "5", "0", "u", "s", "\"", ",", " ", "\"", "m", "t", "u", "\"", ":", " ", "1", "5", "0", "0", ",", " ", "\"", "q", "d", "i", "s", "c", "\"", ":", " ", "\"", "n", "o", "n", "e", "\"", "}">>
EngineOutcomes ==
  << \* 1: the engine fails after printing both markers and writing its files
     [returncode |-> 1, stdout |-> BothMarkers, stderr |-> <<"a", "b", "o", "r", "t">>, elapsed |-> <<"0", ".", "3">>,
      files |-> {[path |-> ConfigPath, content |-> ConfigJson],
                 [path |-> SummaryPath, content |-> GoodSummary]}],
     \* 2: success, no marker in the output
     [returncode |-> 0, stdout |-> <<"S", "t", "a", "r", "t", "i", "n", "g", " ", "s", "i", "m", "u", "l", "a", "t", "i", "o", "n", "\n", "d", "o", "n", "e", "\n">>,
      stderr |-> <<>>, elapsed |-> <<"1", ".", "0">>, files |-> {}],
     \* 3: success, only the run identifier is printed
     [returncode |-> 0, stdout |-> <<"R", "u", "n", " ", "I", "D", ":", " ", "2", "0", "2", "5", "0", "1", "0", "1", "-", "a", "1", "\n">>,
      stderr |-> <<>>, elapsed |-> <<"1", ".", "0">>, files |-> {}],
     \* 4: success, only the result directory is printed
     [returncode |-> 0, stdout |-> <<"R", "e", "s", "u", "l", "t", "s", " ", "w", "r", "i", "t", "t", "e", "n", " ", "t", "o", ":", " ", "o", "u", "t", "/", "s", "i", "m", "/", "2", "0", "2", "5", "0", "1", "0", "1", "-", "a", "1", "\n">>,
      stderr |-> <<>>, elapsed |-> <<"1", ".", "0">>,
      files |-> {[path |-> ConfigPath, content |-> ConfigJson],
                 [path |-> SummaryPath, content |-> GoodSummary]}],
     \* 5: success, both markers, both artifacts
     [returncode |-> 0, stdout |-> BothMarkers, stderr |-> <<>>, elapsed |-> <<"2", ".", "5">>,
      files |-> {[path |-> ConfigPath, content |-> ConfigJson],
                 [path |-> SummaryPath, content |-> GoodSummary]}],
     \* 6: success, both markers, the result directory holds neither artifact
     [returncode |-> 0, stdout |-> BothMarkers, stderr |-> <<>>, elapsed |-> <<"2", ".", "5">>,
      files |-> {}],
     \* 7: success, both markers, a summary whose p95 value is not a number
     [returncode |-> 0, stdout |-> BothMarkers, stderr |-> <<>>, elapsed |-> <<"2", ".", "5">>,
      files |-> {[path |-> ConfigPath, content |-> ConfigJson],
                 [path |-> SummaryPath, content |-> BrokenSummary]}] >>

\* no engine process
NoProc == [returncode |-> 0, stdout |-> <<>>, stderr |-> <<>>, elapsed |-> <<>>,
           files |-> {}]

\* loop_next, had the end of the innermost loop ended the middle one too
RECURSIVE loop_next_skip(_, _, _, _)
loop_next_skip(pos, W, O, S) ==
  IF pos[1] > Len(W) THEN pos
  ELSE IF pos[2] > Len(O) THEN loop_next_skip(<<pos[1] + 1, 1, 1>>, W, O, S)
  ELSE IF pos[3] > Len(S) THEN loop_next_skip(<<pos[1] + 1, 1, 1>>, W, O, S)
  ELSE pos

\* the nested for loops of main: the indices <<wi, oi, si>> of the next
\* execution of the loop body, or with wi past WORKLOADS when none is left
RECURSIVE loop_next(_, _, _, _)
loop_next(pos, W, O, S) ==
  IF pos[1] > Len(W) THEN pos
  ELSE IF pos[2] > Len(O) THEN loop_next(<<pos[1] + 1, 1, 1>>, W, O, S)
  ELSE IF pos[3] > Len(S) THEN loop_next(<<pos[1], pos[2] + 1, 1>>, W, O, S)
  ELSE pos

\* loops_done, had the outer loop stopped one workload short
loops_done_early == loopvar[1] >= Len(workloads)

\* every run of the matrix has been made
loops_done == loopvar[1] > Len(workloads)
total_runs == Len(workloads) * Len(outstandings) * Len(sizes)

InitLive ==
  /\ prog = "live" /\ pc = "loop"
  /\ workloads \in Prefixes(WORKLOADS)
  /\ outstandings \in Prefixes(OUTSTANDING)
  /\ sizes \in Prefixes(SIZES)
  /\ total_runs <= MaxRuns
  /\ loopvar = loop_next(<<1, 1, 1>>, workloads, outstandings, sizes)
  /\ run_num = 0 /\ attempted = <<>> /\ engine = <<>>
  /\ results = <<>> /\ manifest = NoManifest /\ exit_status = <<>> /\ diag = <<>>
  /\ listing = {} /\ todo = <<>>
  /\ summary_file = NoFile /\ live_ret = NotCalled /\ rescan_ret = NotCalled
  /\ subproc = NoProc /\ run_ret = <<>>

\* lines 215-216 and 47-79: the loop body up to the blocking subprocess.run
InvokeEngine ==
  /\ prog = "live" /\ pc = "loop" /\ ~loops_done
  /\ run_num' = run_num + 1
  /\ attempted' = Append(attempted,
       [workload |-> workloads[loopvar[1]],
        outstanding |-> outstandings[loopvar[2]],
        req_bytes |-> sizes[loopvar[3]][1],
        rsp_bytes |-> sizes[loopvar[3]][2],
        run_num |-> run_num',
        total_runs |-> total_runs])
  /\ pc' = "engine"
  /\ diag' = <<>>
  /\ UNCHANGED <<subproc, run_ret, prog, workloads, outstandings, sizes, loopvar, engine, results,
                 manifest, exit_status, listing, todo, summary_file, live_ret,
                 rescan_ret>>

\* lines 79-129 and 218-221: subprocess.run returns, run_experiment finishes,
\* main appends the result or prints the warning, and the loops advance
EngineReturns ==
  /\ prog = "live" /\ pc = "engine"
  /\ \E k \in 1..Len(EngineOutcomes) :
       LET a == attempted[run_num]
           r == run_experiment(a.workload, a.outstanding, a.req_bytes, a.rsp_bytes,
                               EngineOutcomes[k])
       IN /\ engine' = Append(engine, k)
          /\ results' = IF IsNone(r.ret) THEN results ELSE Append(results, r.ret)
          /\ diag' = IF IsNone(r.ret)
                     THEN r.out \o << <<"Warning: Run failed, skipping...", <<>>, <<>> >> >>
                     ELSE r.out
  /\ loopvar' = loop_next(<<loopvar[1], loopvar[2], loopvar[3] + 1>>,
                          workloads, outstandings, sizes)
  /\ pc' = "loop"
  /\ UNCHANGED <<subproc, run_ret, prog, workloads, outstandings, sizes, run_num, attempted,
                 manifest, exit_status, listing, todo, summary_file, live_ret,
                 rescan_ret>>

\* lines 224-242: some run produced a result, the manifest is written
WriteManifest ==
  /\ prog = "live" /\ pc = "loop" /\ loops_done
  /\ results # <<>>
  /\ manifest' = write_manifest(results)
  /\ exit_status' = IF manifest'.raised THEN <<1>> ELSE <<0>>
  /\ pc' = "done"
  /\ diag' = <<>>
  /\ UNCHANGED <<subproc, run_ret, prog, workloads, outstandings, sizes, loopvar, run_num, attempted,
                 engine, results, listing, todo, summary_file, live_ret, rescan_ret>>

\* ExitNoRuns, had main returned normally after printing the message
ExitNoRuns_status0 ==
  /\ prog = "live" /\ pc = "loop" /\ loops_done
  /\ results = <<>>
  /\ exit_status' = <<0>>
  /\ pc' = "done"
  /\ diag' = << <<"No successful runs!", <<>>, <<>> >> >>
  /\ UNCHANGED <<subproc, run_ret, prog, workloads, outstandings, sizes, loopvar, run_num, attempted,
                 engine, results, manifest, listing, todo, summary_file, live_ret,
                 rescan_ret>>

\* lines 244-246: no run produced a result, sys.exit(1)
ExitNoRuns ==
  /\ prog = "live" /\ pc = "loop" /\ loops_done
  /\ results = <<>>
  /\ exit_status' = <<1>>
  /\ pc' = "done"
  /\ diag' = << <<"No successful runs!", <<>>, <<>> >> >>
  /\ UNCHANGED <<subproc, run_ret, prog, workloads, outstandings, sizes, loopvar, run_num, attempted,
                 engine, results, manifest, listing, todo, summary_file, live_ret,
                 rescan_ret>>

NextLive == InvokeEngine \/ EngineReturns \/ WriteManifest \/ ExitNoRuns

SpecLive == InitLive /\ [][NextLive]_vars

\* main runs on whenever it can take a step; nothing makes the engine return:
\* subprocess.run is called without a timeout
SpecLiveFair ==
  /\ SpecLive
  /\ WF_vars(InvokeEngine) /\ WF_vars(WriteManifest) /\ WF_vars(ExitNoRuns)

----------------------------------------------------------------------------
(* generate_manifest.py: the rescan-mode entry point                       *)

OUT_DIR == <<".", ".", "/", "o", "u", "t", "/", "s", "i", "m">>

\* the characters of entry names, in code point order
CodeOrder ==
  <<"-", ".", "0", "1", "2", "3", "4", "5", "6", "7", "8", "9",
    "A", "B", "C", "D", "E", "F", "G", "H", "I", "J", "K", "L", "M",
    "N", "O", "P", "Q", "R", "S", "T", "U", "V", "W", "X", "Y", "Z", "_",
    "a", "b", "c", "d", "e", "f", "g", "h", "i", "j", "k", "l", "m",
    "n", "o", "p", "q", "r", "s", "t", "u", "v", "w", "x", "y", "z">>
Ord(c) == CHOOSE i \in 1..Len(CodeOrder) : CodeOrder[i] = c

\* a < b for two str: by the first position where they differ, a proper
\* prefix first
StrLess(a, b) ==
  LET n == Min({Len(a), Len(b)})
      diff == {i \in 1..n : a[i] # b[i]}
  IN IF diff = {} THEN Len(a) < Len(b)
     ELSE Ord(a[Min(diff)]) < Ord(b[Min(diff)])

\* sorted, had it been called with reverse=True
RECURSIVE sorted_reverse(_)
sorted_reverse(names) ==
  IF names = {} THEN <<>>
  ELSE LET first == CHOOSE a \in names : \A b \in names \ {a} : StrLess(b, a)
       IN <<first>> \o sorted_reverse(names \ {first})

\* sorted(names) for a set of distinct str
RECURSIVE sorted(_)
sorted(names) ==
  IF names = {} THEN <<>>
  ELSE LET first == CHOOSE a \in names : \A b \in names \ {a} : StrLess(a, b)
       IN <<first>> \o sorted(names \ {first})

\* parse_config(config_path): json.load gives the decoded object, or raises
\* on text that is not JSON
parse_config(file) ==
  IF file.exists /\ file.json
  THEN [raised |-> FALSE, value |-> file.value]
  ELSE [raised |-> TRUE, value |-> [none |-> TRUE]]

ConfigKeys ==
  {"runId", "workload", "outstanding", "reqBytes", "rspBytes", "linkRate",
   "linkDelay", "mtu", "qdisc"}

\* visit, had a summary that fails to parse been given the all-zero default
visit_lenient(entry) ==
  LET run_path == PathJoin(OUT_DIR, entry.name)
  IN IF ~entry.isdir
     THEN [ret |-> None, out |-> <<>>]
     ELSE IF ~entry.config.exists \/ ~entry.summary.exists
     THEN [ret |-> None, out |-> << <<"Skipping: missing files", entry.name, <<>> >> >>]
     ELSE
       LET c == parse_config(entry.config)
           s == parse_summary(entry.summary)
           v == IF s.raised THEN <<0, 0, 0, 0>> ELSE s.value
           config == c.value
       IN IF c.raised \/ ~(ConfigKeys \subseteq DOMAIN config)
          THEN [ret |-> None, out |-> << <<"Error processing", entry.name, <<>> >> >>]
          ELSE [ret |-> [run_id |-> config["runId"],
                         workload |-> config["workload"],
                         outstanding |-> config["outstanding"],
                         req_bytes |-> config["reqBytes"],
                         rsp_bytes |-> config["rspBytes"],
                         linkRate |-> config["linkRate"],
                         linkDelay |-> config["linkDelay"],
                         mtu |-> config["mtu"],
                         qdisc |-> config["qdisc"],
                         p50_ns |-> v[1],
                         p95_ns |-> v[2],
                         p99_ns |-> v[3],
                         completed |-> v[4],
                         out_dir |-> run_path],
                out |-> << <<"Processed", entry.name, <<>> >> >>]

\* lines 51-91 of main: the loop body for one entry of OUT_DIR:
\* [ret: the row appended to results, or None; out: the line printed, if any]
visit(entry) ==
  LET run_path == PathJoin(OUT_DIR, entry.name)
  IN IF ~entry.isdir
     THEN [ret |-> None, out |-> <<>>]
     ELSE IF ~entry.config.exists \/ ~entry.summary.exists
     THEN [ret |-> None, out |-> << <<"Skipping: missing files", entry.name, <<>> >> >>]
     ELSE
       LET c == parse_config(entry.config)
           s == parse_summary(entry.summary)
           config == c.value
       IN IF c.raised \/ s.raised \/ ~(ConfigKeys \subseteq DOMAIN config)
          THEN [ret |-> None, out |-> << <<"Error processing", entry.name, <<>> >> >>]
          ELSE [ret |-> [run_id |-> config["runId"],
                         workload |-> config["workload"],
                         outstanding |-> config["outstanding"],
                         req_bytes |-> config["reqBytes"],
                         rsp_bytes |-> config["rspBytes"],
                         linkRate |-> config["linkRate"],
                         linkDelay |-> config["linkDelay"],
                         mtu |-> config["mtu"],
                         qdisc |-> config["qdisc"],
                         p50_ns |-> s.value[1],
                         p95_ns |-> s.value[2],
                         p99_ns |-> s.value[3],
                         completed |-> s.value[4],
                         out_dir |-> run_path],
                out |-> << <<"Processed", entry.name, <<>> >> >>]

\* rescan_fieldnames, had it been copied from write_manifest of run_matrix.py
rescan_fieldnames_elapsed ==
  <<"run_id", "workload", "outstanding", "req_bytes", "rsp_bytes", "linkRate",
    "linkDelay", "mtu", "qdisc", "p50_ns", "p95_ns", "p99_ns", "completed",
    "elapsed_s", "out_dir">>

\* lines 96-111 of main: fieldnames
rescan_fieldnames ==
  <<"run_id", "workload", "outstanding", "req_bytes", "rsp_bytes", "linkRate",
    "linkDelay", "mtu", "qdisc", "p50_ns", "p95_ns", "p99_ns", "completed",
    "out_dir">>

\* the entries OUT_DIR can hold
NamePool == {<<"r", "u", "n", "-", "1", "0">>, <<"r", "u", "n", "-", "2">>, <<"R", "u", "n", "-", "9">>, <<"m", "a", "n", "i", "f", "e", "s", "t", ".", "c", "s", "v">>}

NoConfig == [exists |-> FALSE, json |-> FALSE, value |-> [none |-> TRUE]]
BadJson == [exists |-> TRUE, json |-> FALSE, value |-> [none |-> TRUE]]
FullConfig(name) ==
  [exists |-> TRUE, json |-> TRUE,
   value |-> [runId |-> name, workload |-> "rpc", outstanding |-> 8,
              reqBytes |-> 1024, rspBytes |-> 1024, linkRate |-> "10Gbps",
              linkDelay |-> "50us", mtu |-> 1500, qdisc |-> "none"]]
NoQdiscConfig(name) ==
  [exists |-> TRUE, json |-> TRUE,
   value |-> [runId |-> name, workload |-> "rpc", outstanding |-> 8,
              reqBytes |-> 1024, rspBytes |-> 1024, linkRate |-> "10Gbps",
              linkDelay |-> "50us", mtu |-> 1500]]

EntriesNamed(name) ==
  { \* a plain file
    [name |-> name, isdir |-> FALSE, config |-> NoConfig, summary |-> NoFile],
    \* a directory without summary.txt
    [name |-> name, isdir |-> TRUE, config |-> FullConfig(name), summary |-> NoFile],
    \* a directory without config.json
    [name |-> name, isdir |-> TRUE, config |-> NoConfig, summary |-> File(GoodSummary)],
    \* a complete run directory
    [name |-> name, isdir |-> TRUE, config |-> FullConfig(name), summary |-> File(GoodSummary)],
    \* config.json is not JSON
    [name |-> name, isdir |-> TRUE, config |-> BadJson, summary |-> File(GoodSummary)],
    \* config.json lacks a key
    [name |-> name, isdir |-> TRUE, config |-> NoQdiscConfig(name), summary |-> File(GoodSummary)],
    \* summary.txt holds a value that is not a number
    [name |-> name, isdir |-> TRUE, config |-> FullConfig(name), summary |-> File(BrokenSummary)] }

\* every directory content with at most MaxEntries entries, names distinct
RECURSIVE ListingsOver(_)
ListingsOver(names) ==
  IF names = {} THEN {{}}
  ELSE LET n == CHOOSE x \in names : TRUE
           rest == ListingsOver(names \ {n})
       IN rest \cup {L \cup {e} : L \in {M \in rest : Cardinality(M) < MaxEntries},
                                  e \in EntriesNamed(n)}
Listings == ListingsOver(NamePool)

InitRescan ==
  /\ prog = "rescan" /\ pc = "start"
  /\ listing \in Listings
  /\ todo = <<>>
  /\ results = <<>> /\ manifest = NoManifest /\ exit_status = <<>> /\ diag = <<>>
  /\ workloads = <<>> /\ outstandings = <<>> /\ sizes = <<>>
  /\ loopvar = <<1, 1, 1>> /\ run_num = 0 /\ attempted = <<>> /\ engine = <<>>
  /\ summary_file = NoFile /\ live_ret = NotCalled /\ rescan_ret = NotCalled
  /\ subproc = NoProc /\ run_ret = <<>>

\* lines 47-50: results = [] and sorted(os.listdir(OUT_DIR))
ListOutDir ==
  /\ prog = "rescan" /\ pc = "start"
  /\ todo' = sorted({e.name : e \in listing})
  /\ pc' = "scan"
  /\ diag' = <<>>
  /\ UNCHANGED <<subproc, run_ret, prog, workloads, outstandings, sizes, loopvar, run_num, attempted,
                 engine, results, manifest, exit_status, listing, summary_file,
                 live_ret, rescan_ret>>

\* VisitEntry, had line 61 been a break
VisitEntry_break ==
  /\ prog = "rescan" /\ pc = "scan" /\ todo # <<>>
  /\ LET entry == CHOOSE e \in listing : e.name = Head(todo)
         r == visit(entry)
     IN /\ results' = IF IsNone(r.ret) THEN results ELSE Append(results, r.ret)
        /\ diag' = r.out
        /\ todo' = IF entry.isdir /\ (~entry.config.exists \/ ~entry.summary.exists)
                   THEN <<>> ELSE Tail(todo)
  /\ UNCHANGED <<subproc, run_ret, prog, pc, workloads, outstandings, sizes, loopvar, run_num,
                 attempted, engine, manifest, exit_status, listing, summary_file,
                 live_ret, rescan_ret>>

\* lines 50-91: one iteration of the for loop
VisitEntry ==
  /\ prog = "rescan" /\ pc = "scan" /\ todo # <<>>
  /\ LET entry == CHOOSE e \in listing : e.name = Head(todo)
         r == visit(entry)
     IN /\ results' = IF IsNone(r.ret) THEN results ELSE Append(results, r.ret)
        /\ diag' = r.out
  /\ todo' = Tail(todo)
  /\ UNCHANGED <<subproc, run_ret, prog, pc, workloads, outstandings, sizes, loopvar, run_num,
                 attempted, engine, manifest, exit_status, listing, summary_file,
                 live_ret, rescan_ret>>

\* WriteRescanManifest, had main tested results as run_matrix.py does
WriteRescanManifest_if_results ==
  /\ prog = "rescan" /\ pc = "scan" /\ todo = <<>>
  /\ manifest' = IF results # <<>> THEN DictWriter(rescan_fieldnames, results)
                 ELSE manifest
  /\ exit_status' = IF results = <<>> \/ manifest'.raised THEN <<1>> ELSE <<0>>
  /\ pc' = "done"
  /\ diag' = IF results = <<>> THEN << <<"No successful runs!", <<>>, <<>> >> >> ELSE <<>>
  /\ UNCHANGED <<subproc, run_ret, prog, workloads, outstandings, sizes, loopvar,
                 run_num, attempted, engine, results, listing, todo, summary_file,
                 live_ret, rescan_ret>>

\* lines 93-130: the manifest is written whatever results holds, and main returns
WriteRescanManifest ==
  /\ prog = "rescan" /\ pc = "scan" /\ todo = <<>>
  /\ manifest' = DictWriter(rescan_fieldnames, results)
  /\ exit_status' = IF manifest'.raised THEN <<1>> ELSE <<0>>
  /\ pc' = "done"
  /\ diag' = <<>>
  /\ UNCHANGED <<subproc, run_ret, prog, workloads, outstandings, sizes, loopvar, run_num, attempted,
                 engine, results, listing, todo, summary_file, live_ret, rescan_ret>>

NextRescan == ListOutDir \/ VisitEntry \/ WriteRescanManifest

SpecRescan == InitRescan /\ [][NextRescan]_vars

----------------------------------------------------------------------------
(* A call of each summary parser on one artifact                           *)

\* fields of the two mains, idle while a parser call is modelled
Idle ==
  /\ workloads = <<>> /\ outstandings = <<>> /\ sizes = <<>>
  /\ loopvar = <<1, 1, 1>> /\ run_num = 0 /\ attempted = <<>> /\ engine = <<>>
  /\ results = <<>> /\ manifest = NoManifest /\ exit_status = <<>>
  /\ listing = {} /\ todo = <<>>

InitParse ==
  /\ prog = "parse" /\ pc = "call"
  /\ Idle
  /\ diag = <<>>
  /\ summary_file \in SummaryFiles
  /\ live_ret = NotCalled
  /\ rescan_ret = NotCalled
  /\ subproc = NoProc /\ run_ret = <<>>

CallExtractStats ==
  /\ prog = "parse" /\ ~live_ret.called
  /\ live_ret' = extract_stats(summary_file)
  /\ diag' = IF live_ret'.warned
             THEN << <<"Warning: Could not parse summary file", <<>>, <<>> >> >>
             ELSE <<>>
  /\ UNCHANGED <<subproc, run_ret, prog, pc, workloads, outstandings, sizes, loopvar, run_num,
                 attempted, engine, results, manifest, exit_status, listing,
                 todo, summary_file, rescan_ret>>

CallParseSummary ==
  /\ prog = "parse" /\ ~rescan_ret.called
  /\ rescan_ret' = parse_summary(summary_file)
  /\ diag' = <<>>
  /\ UNCHANGED <<subproc, run_ret, prog, pc, workloads, outstandings, sizes, loopvar, run_num,
                 attempted, engine, results, manifest, exit_status, listing,
                 todo, summary_file, live_ret>>

NextParse == CallExtractStats \/ CallParseSummary

SpecParse == InitParse /\ [][NextParse]_vars

----------------------------------------------------------------------------
(* A call of run_experiment on one completed engine process                *)

\* the lines an engine can print
StdoutPool ==
  { <<"S", "t", "a", "r", "t", "i", "n", "g", " ", "s", "i", "m", "u", "l", "a", "t", "i", "o", "n">>,
    <<"R", "u", "n", " ", "I", "D", ":", " ", "r", "1">>,
    <<" ", " ", "R", "u", "n", " ", "I", "D", ":", " ", " ", "r", "2", " ">>,
    <<"R", "u", "n", " ", "I", "D", ":", " ">>,
    <<"R", "e", "s", "u", "l", "t", "s", " ", "w", "r", "i", "t", "t", "e", "n", " ", "t", "o", ":", " ", "o", "u", "t", "/", "s", "i", "m", "/", "r", "1">>,
    <<"R", "e", "s", "u", "l", "t", "s", " ", "w", "r", "i", "t", "t", "e", "n", " ", "t", "o", ":", " ", " ", "o", "u", "t", "/", "s", "i", "m", "/", "r", "2", " ">>,
    <<"R", "e", "s", "u", "l", "t", "s", " ", "w", "r", "i", "t", "t", "e", "n", " ", "t", "o", ":">>,
    <<"R", "u", "n", " ", "I", "D", ":", " ", "r", "3", " ", "R", "e", "s", "u", "l", "t", "s", " ", "w", "r", "i", "t", "t", "e", "n", " ", "t", "o", ":", " ", "o", "u", "t", "/", "s", "i", "m", "/", "r", "2">>,
    <<"R", "e", "s", "u", "l", "t", "s", " ", "w", "r", "i", "t", "t", "e", "n", " ", "t", "o", ":", " ", "o", "u", "t", "/", "s", "i", "m", "/", "r", "1", " ", "R", "u", "n", " ", "I", "D", ":", " ", "r", "4">> }
Stdouts == {JoinLines(q) : q \in SeqsUpTo(StdoutPool, MaxStdout)}

\* the result directories it left behind
OtherSummary ==
  <<"=", "=", "=", " ", "R", "u", "n", " ", "S", "u", "m", "m", "a", "r", "y", " ", "=", "=", "=", "\n", "C", "o", "m", "p", "l", "e", "t", "e", "d", ":", " ", "1", "0", "0", "0", "0", "/", "1", "0", "0", "0", "0", "\n", "L", "a", "t", "e", "n", "c", "y", " ", "(", "μ", "s", ")", ":", "\n", " ", " ", "p", "5", "0", ":", " ", "0", ".", "9", "\n", "L", "a", "t", "e", "n", "c", "y", " ", "(", "n", "s", ")", ":", "\n", " ", " ", "p", "5", "0", ":", " ", "9", "0", "0", ".", "9", "\n", " ", " ", "p", "9", "5", ":", " ", "9", "5", "0", ".", "0", "\n", " ", " ", "p", "9", "9", ":", " ", "9", "9", "0", ".", "5", "\n">>
ResultFiles ==
  { [path |-> <<"o", "u", "t", "/", "s", "i", "m", "/", "r", "1", "/", "c", "o", "n", "f", "i", "g", ".", "j", "s", "o", "n">>, content |-> ConfigJson],
    [path |-> <<"o", "u", "t", "/", "s", "i", "m", "/", "r", "1", "/", "s", "u", "m", "m", "a", "r", "y", ".", "t", "x", "t">>, content |-> GoodSummary],
    [path |-> <<"o", "u", "t", "/", "s", "i", "m", "/", "r", "2", "/", "s", "u", "m", "m", "a", "r", "y", ".", "t", "x", "t">>, content |-> OtherSummary] }

\* the parameter sets of the calls modelled
ScanParams ==
  { [workload |-> WORKLOADS[1], outstanding |-> OUTSTANDING[1],
     req_bytes |-> SIZES[1][1], rsp_bytes |-> SIZES[1][2],
     run_num |-> 1,
     total_runs |-> Len(WORKLOADS) * Len(OUTSTANDING) * Len(SIZES)],
    [workload |-> WORKLOADS[2], outstanding |-> OUTSTANDING[3],
     req_bytes |-> SIZES[3][1], rsp_bytes |-> SIZES[3][2],
     run_num |-> Len(WORKLOADS) * Len(OUTSTANDING) * Len(SIZES),
     total_runs |-> Len(WORKLOADS) * Len(OUTSTANDING) * Len(SIZES)] }

InitScan ==
  /\ prog = "scan" /\ pc = "call"
  /\ workloads = WORKLOADS /\ outstandings = OUTSTANDING /\ sizes = SIZES
  /\ loopvar = <<1, 1, 1>> /\ run_num = 0 /\ engine = <<>>
  /\ results = <<>> /\ manifest = NoManifest /\ exit_status = <<>> /\ diag = <<>>
  /\ listing = {} /\ todo = <<>>
  /\ summary_file = NoFile /\ live_ret = NotCalled /\ rescan_ret = NotCalled
  /\ \E a \in ScanParams : attempted = <<a>>
  /\ \E out \in Stdouts :
       subproc = [returncode |-> 0, stdout |-> out, stderr |-> <<>>,
               elapsed |-> <<"2", ".", "5">>, files |-> ResultFiles]
  /\ run_ret = <<>>

\* run_experiment from the return of subprocess.run to its own return
CallRunExperiment ==
  /\ prog = "scan" /\ pc = "call"
  /\ LET a == attempted[1]
         r == run_experiment(a.workload, a.outstanding, a.req_bytes, a.rsp_bytes, subproc)
     IN /\ run_ret' = <<r.ret>>
        /\ diag' = r.out
  /\ pc' = "returned"
  /\ UNCHANGED <<subproc, prog, workloads, outstandings, sizes, loopvar, run_num,
                 attempted, engine, results, manifest, exit_status, listing, todo,
                 summary_file, live_ret, rescan_ret>>

NextScan == CallRunExperiment

SpecScan == InitScan /\ [][NextScan]_vars

----------------------------------------------------------------------------
(* Either program, or a call of a parser                                  *)

Init == InitLive \/ InitRescan \/ InitParse
Next == NextLive \/ NextRescan \/ NextParse
Spec == Init /\ [][Next]_vars


----------------------------------------------------------------------------
(* Properties of live mode                                                 *)

Outcome(i) == EngineOutcomes[engine[i]]
ParamsOf(a) == <<a.workload, a.outstanding, a.req_bytes, a.rsp_bytes>>
RowParams(r) == <<r.workload, r.outstanding, r.req_bytes, r.rsp_bytes>>
CellsParams(c) == <<c[2], c[3], c[4], c[5]>>

\* results holds a row for the i-th run; so does the written manifest
HasRow(i) ==
  \E j \in 1..Len(results) : RowParams(results[j]) = ParamsOf(attempted[i])
InManifest(i) ==
  /\ manifest.written
  /\ \E j \in 1..Len(manifest.rows) : CellsParams(manifest.rows[j]) = ParamsOf(attempted[i])
RowOf(i) ==
  results[CHOOSE j \in 1..Len(results) : RowParams(results[j]) = ParamsOf(attempted[i])]

\* the captured stdout lacks one of the two markers
LacksMarker(o) ==
  \/ ~Contains(o.stdout, <<"R", "u", "n", " ", "I", "D", ":">>)
  \/ ~Contains(o.stdout, <<"R", "e", "s", "u", "l", "t", "s", " ", "w", "r", "i", "t", "t", "e", "n", " ", "t", "o", ":">>)
HasFile(o, path) == \E f \in o.files : f.path = path

\* C1: live-mode main calls run_experiment exactly w*o*s times, once for each
\* (workload, outstanding, size) combination, in nested order workload ->
\* outstanding -> size, each list in declaration order, whatever the earlier
\* runs returned.
C1_MatrixEnumeration ==
  prog = "live" =>
    LET w == Len(workloads)
        o == Len(outstandings)
        s == Len(sizes)
    IN /\ Len(attempted) = run_num
       /\ Len(attempted) <= w * o * s
       /\ pc = "done" => Len(attempted) = w * o * s
       /\ Len(engine) = IF pc = "engine" THEN run_num - 1 ELSE run_num
       /\ \A i \in 1..Len(attempted) :
            /\ attempted[i].workload = workloads[((i - 1) \div (o * s)) + 1]
            /\ attempted[i].outstanding = outstandings[(((i - 1) \div s) % o) + 1]
            /\ <<attempted[i].req_bytes, attempted[i].rsp_bytes>> = sizes[((i - 1) % s) + 1]
            /\ attempted[i].run_num = i
            /\ attempted[i].total_runs = w * o * s
       /\ \A i, j \in 1..Len(attempted) :
            i # j => ParamsOf(attempted[i]) # ParamsOf(attempted[j])

\* a 2 x 2 x 1 matrix run to the end, with a failed and a successful run
C1_Witness ==
  /\ prog = "live" /\ pc = "done"
  /\ Len(workloads) = 2 /\ Len(outstandings) = 2 /\ Len(attempted) = 4
  /\ Outcome(1).returncode # 0
  /\ HasRow(2) /\ ~HasRow(3) /\ HasRow(4)

\* C2: a run whose engine exits non-zero has no row in results or in the
\* manifest; every later parameter set is still invoked, and a run that exits
\* zero with both markers yields its row whatever happened before it.
C2_FailedRunNoRow ==
  prog = "live" =>
    /\ \A i \in 1..Len(engine) :
         Outcome(i).returncode # 0 => ~HasRow(i) /\ ~InManifest(i)
    /\ \A i \in 1..Len(engine) :
         Outcome(i).returncode = 0 /\ ~LacksMarker(Outcome(i)) => HasRow(i)
    /\ pc = "done" => Len(engine) = Len(workloads) * Len(outstandings) * Len(sizes)

\* a failed run followed by a run whose row is in the manifest
C2_Witness ==
  /\ prog = "live" /\ pc = "done"
  /\ \E i, j \in 1..Len(engine) :
       /\ i < j
       /\ Outcome(i).returncode # 0
       /\ InManifest(j)

\* C8: a run that exits zero with a marker missing from its stdout yields no
\* row, the warning printed carries the captured stdout, and the matrix goes
\* on to the end.
C8_MissingMarkerNoRow ==
  prog = "live" =>
    /\ \A i \in 1..Len(engine) :
         Outcome(i).returncode = 0 /\ LacksMarker(Outcome(i)) =>
           /\ ~HasRow(i) /\ ~InManifest(i)
           /\ (i = Len(engine) /\ pc = "loop") =>
                /\ diag # <<>>
                /\ diag[1] = <<"Warning: Could not extract run ID from output",
                               Outcome(i).stdout, <<>> >>
    /\ pc = "done" => Len(attempted) = Len(workloads) * Len(outstandings) * Len(sizes)

\* runs lacking both markers, the second, and the first, then a run with a row
C8_Witness ==
  /\ prog = "live" /\ pc = "done"
  /\ Len(engine) = 4
  /\ engine[1] = 2 /\ engine[2] = 3 /\ engine[3] = 4
  /\ InManifest(4)

\* C9 as the specification states it: a run whose result directory lacks
\* config.json or summary.txt yields no row.
C9_Original ==
  prog = "live" =>
    \A i \in 1..Len(engine) :
      ( /\ Outcome(i).returncode = 0
        /\ ~LacksMarker(Outcome(i))
        /\ (~HasFile(Outcome(i), ConfigPath) \/ ~HasFile(Outcome(i), SummaryPath)) )
      => ~HasRow(i)

\* C9 (amended): a run that exits zero with both markers yields a row whether
\* or not its result directory holds config.json and summary.txt; without
\* summary.txt the four summary fields of the row are 0 and a warning is
\* printed; the row reaches the manifest.
C9_MissingArtifactsStillRow ==
  prog = "live" =>
    \A i \in 1..Len(engine) :
      (Outcome(i).returncode = 0 /\ ~LacksMarker(Outcome(i))) =>
        /\ HasRow(i)
        /\ RowOf(i).workload = attempted[i].workload
        /\ RowOf(i).outstanding = attempted[i].outstanding
        /\ ~HasFile(Outcome(i), SummaryPath) =>
             /\ <<RowOf(i).p50_ns, RowOf(i).p95_ns, RowOf(i).p99_ns, RowOf(i).completed>>
                  = <<0, 0, 0, 0>>
             /\ (i = Len(engine) /\ pc = "loop") =>
                  diag = << <<"Warning: Could not parse summary file", <<>>, <<>> >> >>
        /\ pc = "done" => InManifest(i)

\* a run whose result directory is empty, with its row in the manifest
C9_Witness ==
  /\ prog = "live" /\ pc = "done"
  /\ \E i \in 1..Len(engine) :
       /\ engine[i] = 6
       /\ ~HasFile(Outcome(i), ConfigPath) /\ ~HasFile(Outcome(i), SummaryPath)
       /\ InManifest(i)

\* C10: live mode ends with a non-zero status exactly when no run produced a
\* result; otherwise it writes the manifest, one row per result, and ends
\* with status 0.
C10_ExitStatus ==
  prog = "live" =>
    /\ pc # "done" => exit_status = <<>>
    /\ pc = "done" =>
         /\ exit_status \in {<<0>>, <<1>>}
         /\ exit_status # <<0>> <=> \A i \in 1..Len(engine) : ~HasRow(i)
         /\ exit_status # <<0>> <=> results = <<>>
         /\ results # <<>> =>
              /\ manifest.written /\ ~manifest.raised
              /\ Len(manifest.rows) = Len(results)
         /\ results = <<>> => ~manifest.written

\* three runs, none with a result: the process exits with status 1
C10_Witness ==
  /\ prog = "live" /\ pc = "done"
  /\ Len(engine) = 3
  /\ engine[1] = 1 /\ engine[2] = 2
  /\ exit_status = <<1>>

----------------------------------------------------------------------------
(* Properties of rescan mode and of the manifest order                     *)

\* the directory name a rescan row was built from
NameOfRow(r) == SubSeq(r.out_dir, Len(OUT_DIR) + 2, Len(r.out_dir))
\* the position in the matrix of the run a live row was built from
RunOfRow(r) == CHOOSE i \in 1..Len(attempted) : ParamsOf(attempted[i]) = RowParams(r)

\* the entries already visited by the rescan loop
TodoNames == {todo[i] : i \in 1..Len(todo)}
Visited == IF pc = "start" THEN {} ELSE {e \in listing : e.name \notin TodoNames}
LastVisited == CHOOSE e \in Visited : \A f \in Visited \ {e} : StrLess(f.name, e.name)

MissingArtifact(e) == e.isdir /\ (~e.config.exists \/ ~e.summary.exists)
\* a subdirectory with both artifacts, both of which load
Loads(e) ==
  /\ e.isdir /\ e.config.exists /\ e.summary.exists
  /\ e.config.json /\ ConfigKeys \subseteq DOMAIN e.config.value
  /\ e.summary.content # BrokenSummary

C3_Order ==
  /\ prog = "live" =>
       \A j, k \in 1..Len(results) : j < k => RunOfRow(results[j]) < RunOfRow(results[k])
  /\ prog = "rescan" =>
       \A j, k \in 1..Len(results) :
         j < k => StrLess(NameOfRow(results[j]), NameOfRow(results[k]))
  /\ manifest.written =>
       /\ Len(manifest.rows) = Len(results)
       /\ \A j \in 1..Len(results) :
            /\ manifest.rows[j][1] = results[j].run_id
            /\ CellsParams(manifest.rows[j]) = RowParams(results[j])
            /\ manifest.rows[j][Len(manifest.header)] = results[j].out_dir
C3_AppendOnly ==
  /\ Len(results') \in {Len(results), Len(results) + 1}
  /\ SubSeq(results', 1, Len(results)) = results

\* C3: the rows of results are in processing order (for live mode the order
\* of the matrix, for rescan mode the lexicographic order of the directory
\* names), results only ever grows at its end, and the manifest holds the
\* rows of results in the same order.
C3_ManifestOrder == []C3_Order /\ [][C3_AppendOnly]_vars

\* a rescan of Run-9, run-10 and run-2, written in that order
C3_Witness ==
  /\ prog = "rescan" /\ pc = "done"
  /\ Len(manifest.rows) = 3
  /\ manifest.rows[1][1] = <<"R", "u", "n", "-", "9">>
  /\ manifest.rows[2][1] = <<"r", "u", "n", "-", "1", "0">>
  /\ manifest.rows[3][1] = <<"r", "u", "n", "-", "2">>

\* C4: the rescan manifest holds exactly one row for each subdirectory of
\* OUT_DIR that has both artifacts and loads, in lexicographic order of the
\* names; a subdirectory missing an artifact is skipped with the "missing
\* files" line and the entries after it are still visited.
C4_RescanRows ==
  prog = "rescan" =>
    LET valid == {e.name : e \in {v \in Visited : Loads(v)}}
    IN /\ {NameOfRow(results[j]) : j \in 1..Len(results)} = valid
       /\ Len(results) = Cardinality(valid)
       /\ \A j, k \in 1..Len(results) :
            j < k => StrLess(NameOfRow(results[j]), NameOfRow(results[k]))
       /\ (pc = "scan" /\ Visited # {} /\ MissingArtifact(LastVisited)) =>
            diag = << <<"Skipping: missing files", LastVisited.name, <<>> >> >>
       /\ pc = "done" =>
            /\ Visited = listing
            /\ manifest.written
            /\ Len(manifest.rows) = Cardinality({e \in listing : Loads(e)})
            /\ \A j \in 1..Len(manifest.rows) :
                 manifest.rows[j][14] = PathJoin(OUT_DIR, NameOfRow(results[j]))

\* three complete run directories and one without summary.txt, which sorts
\* before the last of them: three rows
C4_Witness ==
  /\ prog = "rescan" /\ pc = "done"
  /\ Cardinality(listing) = 4
  /\ Cardinality({e \in listing : Loads(e)}) = 3
  /\ \E e \in listing : e.name = <<"r", "u", "n", "-", "1", "0">> /\ e.isdir /\ e.config.exists /\ ~e.summary.exists
  /\ Len(manifest.rows) = 3

----------------------------------------------------------------------------
(* Properties of the summary parsers                                       *)

AllPresent(f) ==
  f.completed # Absent /\ f.p50 # Absent /\ f.p95 # Absent /\ f.p99 # Absent

\* the lines of a free-form text, read off the file
LinesOf(file) == Split(file.content, <<"\n">>)
IsFree(file) ==
  /\ file.exists
  /\ LET L == LinesOf(file) IN \A i \in 1..Len(L) : L[i] \in LinePool \cup {<<>>}
\* every well-formed artifact starts with the title line
Titled(file) == file.exists /\ MatchAt(file.content, <<"=", "=", "=", " ", "R", "u", "n", " ", "S", "u", "m", "m", "a", "r", "y", " ", "=", "=", "=">>, 1)

NsHeader == <<"L", "a", "t", "e", "n", "c", "y", " ", "(", "n", "s", ")", ":">>
UsHeader == <<"L", "a", "t", "e", "n", "c", "y", " ", "(", "μ", "s", ")", ":">>
\* line i of L lies in the nanosecond section: the nearest header above it
\* is the nanosecond one
InNs(L, i) ==
  \E h \in 1..(i - 1) :
    /\ L[h] = NsHeader
    /\ \A g \in (h + 1)..(i - 1) : L[g] \notin {NsHeader, UsHeader}
\* the first line on which a conversion fails, 0 if none: in the first loop a
\* Completed line whose count is no integer, in the second a p99 line of the
\* nanosecond section whose value is no number
First(S) == IF S = {} THEN 0 ELSE Min(S)
CompletedFail(L) == First({i \in 1..Len(L) : L[i] = <<"C", "o", "m", "p", "l", "e", "t", "e", "d", ":", " ", "3", ".", "0", "/", "4">>})
LatencyFail(L) ==
  IF CompletedFail(L) # 0 THEN 0
  ELSE First({i \in 1..Len(L) : InNs(L, i) /\ L[i] = <<"p", "9", "9", ":", " ", "n", "/", "a">>})
Fails(L) == CompletedFail(L) # 0 \/ LatencyFail(L) # 0
\* the value of the last line among `lines` that lies before the failing
\* line `stop` (anywhere, if stop = 0), 0 if there is none
LastBefore(L, stop, at, val) ==
  LET seen == {i \in 1..Len(L) : at[i] /\ (stop = 0 \/ i < stop)}
  IN IF seen = {} THEN 0 ELSE val[Max(seen)]
\* what the lines parsed before the failure leave in the four variables
PartialStats(L) ==
  LET n == Len(L)
      p50At == [i \in 1..n |-> InNs(L, i) /\ L[i] \in {<<"p", "5", "0", ":", " ", "1", "2", ".", "5">>, <<" ", "p", "5", "0", ":", " ", "9", "9", ".", "9", " ">>}]
      p50Val == [i \in 1..n |-> IF L[i] = <<"p", "5", "0", ":", " ", "1", "2", ".", "5">> THEN 12 ELSE 99]
      p95At == [i \in 1..n |-> InNs(L, i) /\ L[i] = <<"p", "9", "5", ":", " ", "4", "0">>]
      doneAt == [i \in 1..n |-> L[i] = <<"C", "o", "m", "p", "l", "e", "t", "e", "d", ":", " ", "3", "/", "4">>]
  IN IF CompletedFail(L) # 0
     THEN <<0, 0, 0, LastBefore(L, CompletedFail(L), doneAt, [i \in 1..n |-> 3])>>
     ELSE << LastBefore(L, LatencyFail(L), p50At, p50Val),
             LastBefore(L, LatencyFail(L), p95At, [i \in 1..n |-> 40]),
             0,
             LastBefore(L, 0, doneAt, [i \in 1..n |-> 3]) >>

\* C5: for an artifact with a Completed line, the nanosecond section with its
\* three lines and then the microsecond section, both parsers return
\* (trunc(p50), trunc(p95), trunc(p99), n); and the completed count of a text
\* is that of its Completed line wherever the line stands among the headers.
C5_WellFormedParse ==
  /\ \A f \in {g \in FieldChoices : Titled(summary_file)} :
       (AllPresent(f) /\ summary_file = File(WellFormedText[f])) =>
         LET want == <<Trunc(f.p50[1]), Trunc(f.p95[1]), Trunc(f.p99[1]), f.completed[1].n>>
         IN /\ live_ret.called =>
                 live_ret.value = want /\ ~live_ret.warned /\ ~live_ret.raised
            /\ rescan_ret.called =>
                 rescan_ret.value = want /\ ~rescan_ret.raised
  /\ IsFree(summary_file) =>
       LET L == LinesOf(summary_file)
           n == IF \E i \in 1..Len(L) : L[i] = <<"C", "o", "m", "p", "l", "e", "t", "e", "d", ":", " ", "3", "/", "4">> THEN 3 ELSE 0
       IN ~Fails(L) =>
            /\ live_ret.called => live_ret.value[4] = n
            /\ rescan_ret.called => rescan_ret.value[4] = n

\* the artifact of the specification's example, parsed by both parsers
C5_Witness ==
  /\ summary_file = File(GoodSummary)
  /\ live_ret.called /\ live_ret.value = <<1234, 5678, 9999, 9000>>
  /\ rescan_ret.called /\ rescan_ret.value = <<1234, 5678, 9999, 9000>>

\* C6: whichever of the four lines an otherwise well-formed artifact lacks,
\* both parsers return 0 for the fields without a line and the parsed value
\* for the fields with one.
C6_LenientDefault ==
  \A f \in {g \in FieldChoices : Titled(summary_file)} :
    summary_file = File(WellFormedText[f]) =>
      /\ live_ret.called =>
           live_ret.value = Expected(f) /\ ~live_ret.warned /\ ~live_ret.raised
      /\ rescan_ret.called =>
           rescan_ret.value = Expected(f) /\ ~rescan_ret.raised

\* the artifact without its nanosecond p99 line
C6_Witness ==
  /\ \E f \in FieldChoices :
       /\ f.p99 = Absent /\ f.p50 # Absent /\ f.p95 # Absent /\ f.completed # Absent
       /\ summary_file = File(WellFormedText[f])
  /\ live_ret.called /\ live_ret.value = <<1234, 5678, 0, 9000>>
  /\ rescan_ret.called /\ rescan_ret.value = <<1234, 5678, 0, 9000>>

\* C7 as the specification states it: after an exception the parser has
\* logged a diagnostic and returns (0, 0, 0, 0).
C7_Original ==
  (live_ret.called /\ live_ret.warned) =>
    ~live_ret.raised /\ live_ret.value = <<0, 0, 0, 0>>

\* C7 (amended): extract_stats never raises; when the artifact cannot be
\* opened it warns and returns (0, 0, 0, 0); when a conversion fails it warns
\* and returns the values of the lines parsed before the failing one, 0 for
\* the rest.  parse_summary raises in exactly the cases where extract_stats
\* warns.
C7_PartialOnException ==
  /\ live_ret.called =>
       /\ ~live_ret.raised
       /\ ~summary_file.exists => live_ret.warned /\ live_ret.value = <<0, 0, 0, 0>>
       /\ IsFree(summary_file) =>
            LET L == LinesOf(summary_file)
            IN /\ live_ret.warned <=> Fails(L)
               /\ live_ret.value = PartialStats(L)
  /\ rescan_ret.called =>
       /\ ~summary_file.exists => rescan_ret.raised
       /\ IsFree(summary_file) => (rescan_ret.raised <=> Fails(LinesOf(summary_file)))
  /\ (live_ret.called /\ rescan_ret.called) => (live_ret.warned <=> rescan_ret.raised)

\* a text whose Completed line and p50 line are parsed before its p99 line fails
C7_Witness ==
  /\ summary_file.exists
  /\ live_ret.called /\ live_ret.warned /\ ~live_ret.raised
  /\ live_ret.value[4] = 3
  /\ rescan_ret.called /\ rescan_ret.raised

----------------------------------------------------------------------------
(* Malformed summaries, the manifest header, the section flag              *)

\* the artifacts of a run directory: both are there and config.json loads
ConfigLoads(e) ==
  /\ e.isdir /\ e.config.exists /\ e.summary.exists
  /\ e.config.json /\ ConfigKeys \subseteq DOMAIN e.config.value
\* summary.txt is there and holds a value that is not a number
Malformed(file) == file.exists /\ file.content = BrokenSummary
MalformedRun(o) ==
  /\ o.returncode = 0 /\ ~LacksMarker(o)
  /\ \E f \in o.files : f.path = SummaryPath /\ f.content = BrokenSummary
RescanHasRow(e) == \E j \in 1..Len(results) : NameOfRow(results[j]) = e.name

\* C11 as the specification states it: in both modes a run whose summary
\* artifact is malformed still yields a row, and only a config.json that
\* fails to load makes a run with both artifacts be skipped.
C11_Original ==
  /\ prog = "live" =>
       \A i \in 1..Len(engine) : MalformedRun(Outcome(i)) => HasRow(i)
  /\ prog = "rescan" =>
       \A e \in Visited :
         /\ (ConfigLoads(e) /\ Malformed(e.summary)) => RescanHasRow(e)
         /\ (e.isdir /\ e.config.exists /\ e.summary.exists /\ ~RescanHasRow(e))
              => ~ConfigLoads(e)

\* C11 (amended): in live mode a run whose summary artifact is malformed
\* yields a row holding the fields parsed before the malformed line and 0 for
\* the others, after a warning; in rescan mode such a directory is skipped
\* with the "Error processing" line, as is a directory whose config.json
\* fails to load, and every other directory with both artifacts has its row.
C11_MalformedSummary ==
  /\ prog = "live" =>
       \A i \in 1..Len(engine) :
         MalformedRun(Outcome(i)) =>
           /\ HasRow(i)
           /\ <<RowOf(i).p50_ns, RowOf(i).p95_ns, RowOf(i).p99_ns, RowOf(i).completed>>
                = <<77, 0, 0, 42>>
           /\ (i = Len(engine) /\ pc = "loop") =>
                diag = << <<"Warning: Could not parse summary file", <<>>, <<>> >> >>
           /\ pc = "done" => InManifest(i)
  /\ prog = "rescan" =>
       /\ \A e \in Visited :
            (e.isdir /\ e.config.exists /\ e.summary.exists) =>
              (RescanHasRow(e) <=> (ConfigLoads(e) /\ ~Malformed(e.summary)))
       /\ (pc = "scan" /\ Visited # {} /\ ConfigLoads(LastVisited)
             /\ Malformed(LastVisited.summary)) =>
            diag = << <<"Error processing", LastVisited.name, <<>> >> >>
       /\ pc = "done" =>
            \A e \in listing :
              (ConfigLoads(e) /\ Malformed(e.summary)) =>
                \A j \in 1..Len(manifest.rows) : manifest.rows[j][1] # e.name

\* a rescan over a directory with a malformed summary.txt and a complete
\* one: the manifest holds the complete one's row only
C11_Witness ==
  /\ prog = "rescan" /\ pc = "done"
  /\ \E e, f \in listing :
       /\ ConfigLoads(e) /\ Malformed(e.summary)
       /\ StrLess(e.name, f.name) /\ Loads(f)
  /\ Len(manifest.rows) = 1

\* the column names of the manifest, with and without the elapsed time
HeaderWithElapsed ==
  <<"run_id", "workload", "outstanding", "req_bytes", "rsp_bytes", "linkRate",
    "linkDelay", "mtu", "qdisc", "p50_ns", "p95_ns", "p99_ns", "completed",
    "elapsed_s", "out_dir">>
HeaderWithoutElapsed ==
  <<"run_id", "workload", "outstanding", "req_bytes", "rsp_bytes", "linkRate",
    "linkDelay", "mtu", "qdisc", "p50_ns", "p95_ns", "p99_ns", "completed",
    "out_dir">>
Names(header) == {header[k] : k \in 1..Len(header)}
Column(header, name) == CHOOSE k \in 1..Len(header) : header[k] = name

\* C12 as the specification states it: the header is the fixed sequence, no
\* result has a key outside it, and in rescan mode the elapsed time is a
\* column of the header which the results lack and which is written empty.
C12_Original ==
  manifest.written =>
    /\ manifest.header \in {HeaderWithElapsed, HeaderWithoutElapsed}
    /\ \A j \in 1..Len(results) : DOMAIN results[j] \subseteq Names(manifest.header)
    /\ prog = "rescan" =>
         /\ "elapsed_s" \in Names(manifest.header)
         /\ \A j \in 1..Len(manifest.rows) :
              manifest.rows[j][Column(manifest.header, "elapsed_s")] = <<>>

\* C12 (amended): the live header is the fixed sequence with elapsed_s and
\* the rescan header is the same sequence without it; in each mode the keys
\* of every result are exactly the columns of that mode's header, so the
\* writer never raises, never fills in a cell by default, and the rescan
\* manifest has no elapsed_s column at all.
C12_HeaderAndKeys ==
  /\ prog = "live" =>
       \A j \in 1..Len(results) : DOMAIN results[j] = Names(HeaderWithElapsed)
  /\ prog = "rescan" =>
       \A j \in 1..Len(results) : DOMAIN results[j] = Names(HeaderWithoutElapsed)
  /\ manifest.written =>
       /\ ~manifest.raised
       /\ manifest.header =
            IF prog = "live" THEN HeaderWithElapsed ELSE HeaderWithoutElapsed
       /\ Len(manifest.rows) = Len(results)
       /\ \A j \in 1..Len(manifest.rows) :
            /\ Len(manifest.rows[j]) = Len(manifest.header)
            /\ \A k \in 1..Len(manifest.header) :
                 manifest.rows[j][k] = results[j][manifest.header[k]]

\* a rescan manifest of two rows under the fourteen-column header
C12_Witness ==
  /\ prog = "rescan" /\ pc = "done"
  /\ manifest.written
  /\ Len(manifest.header) = 14
  /\ Len(manifest.rows) = 2
  /\ "elapsed_s" \notin DOMAIN results[1]

\* the label lines of a free-form text, and those of the nanosecond section
IsLabel(line) == line \in {<<"p", "5", "0", ":", " ", "1", "2", ".", "5">>, <<" ", "p", "5", "0", ":", " ", "9", "9", ".", "9", " ">>, <<"p", "9", "5", ":", " ", "4", "0">>, <<"p", "9", "9", ":", " ", "n", "/", "a">>}
NsLabels(L) == {i \in 1..Len(L) : IsLabel(L[i]) /\ InNs(L, i)}
\* the value of the last line among `lines` standing in the nanosecond
\* section, 0 if there is none
LastInNs(L, lines, val) ==
  LET seen == {i \in 1..Len(L) : L[i] \in lines /\ InNs(L, i)}
  IN IF seen = {} THEN 0 ELSE val[L[Max(seen)]]
P50Val == [line \in {<<"p", "5", "0", ":", " ", "1", "2", ".", "5">>, <<" ", "p", "5", "0", ":", " ", "9", "9", ".", "9", " ">>} |->
             IF line = <<"p", "5", "0", ":", " ", "1", "2", ".", "5">> THEN 12 ELSE 99]
P95Val == [line \in {<<"p", "9", "5", ":", " ", "4", "0">>} |-> 40]

\* C13: a p50/p95/p99 line changes the result only if the nearest header line
\* above it is "Latency (ns):".  With no label line in the nanosecond section
\* both parsers return 0 for the three percentiles and neither fails on a
\* label line, whatever the label lines before the first header or under
\* "Latency (μs):" hold; otherwise each percentile is the value of its last
\* line of the nanosecond section, for every order and repetition of the two
\* headers.
C13_SectionFlag ==
  IsFree(summary_file) =>
    LET L == LinesOf(summary_file)
        none == NsLabels(L) = {}
        want == <<LastInNs(L, {<<"p", "5", "0", ":", " ", "1", "2", ".", "5">>, <<" ", "p", "5", "0", ":", " ", "9", "9", ".", "9", " ">>}, P50Val),
                  LastInNs(L, {<<"p", "9", "5", ":", " ", "4", "0">>}, P95Val),
                  0>>
    IN /\ (live_ret.called /\ none) =>
            /\ SubSeq(live_ret.value, 1, 3) = <<0, 0, 0>>
            /\ live_ret.warned <=> CompletedFail(L) # 0
       /\ (rescan_ret.called /\ none) =>
            /\ rescan_ret.raised <=> CompletedFail(L) # 0
            /\ ~rescan_ret.raised => SubSeq(rescan_ret.value, 1, 3) = <<0, 0, 0>>
       /\ (live_ret.called /\ ~Fails(L)) => SubSeq(live_ret.value, 1, 3) = want
       /\ (rescan_ret.called /\ ~Fails(L)) =>
            ~rescan_ret.raised /\ SubSeq(rescan_ret.value, 1, 3) = want

\* the microsecond section first, holding a p50 line, then the header of the
\* nanosecond section: both parsers return 0 for p50
C13_Witness ==
  /\ summary_file.exists
  /\ LinesOf(summary_file) = <<UsHeader, <<"p", "5", "0", ":", " ", "1", "2", ".", "5">>, NsHeader>>
  /\ live_ret.called /\ live_ret.value[1] = 0
  /\ rescan_ret.called /\ ~rescan_ret.raised /\ rescan_ret.value[1] = 0

\* C16: on a summary artifact that raises no exception extract_stats and
\* parse_summary return the same four values; an artifact makes one fail
\* exactly when it makes the other fail, and then extract_stats returns its
\* four variables after a warning while parse_summary raises and returns
\* nothing.
C16_ParsersAgree ==
  (live_ret.called /\ rescan_ret.called) =>
    /\ ~live_ret.raised
    /\ Len(live_ret.value) = 4
    /\ live_ret.warned <=> rescan_ret.raised
    /\ ~live_ret.warned => rescan_ret.value = live_ret.value
    /\ rescan_ret.raised => rescan_ret.value = <<>>

\* a text with a p50 line in the nanosecond section and a Completed line
\* after it: both parsers return (99, 0, 0, 3)
C16_Witness ==
  /\ summary_file.exists
  /\ LinesOf(summary_file) = <<NsHeader, <<" ", "p", "5", "0", ":", " ", "9", "9", ".", "9", " ">>, <<"C", "o", "m", "p", "l", "e", "t", "e", "d", ":", " ", "3", "/", "4">>>>
  /\ live_ret.called /\ ~live_ret.warned /\ live_ret.value = <<99, 0, 0, 3>>
  /\ rescan_ret.called /\ ~rescan_ret.raised /\ rescan_ret.value = <<99, 0, 0, 3>>

\* C18: rescan mode is never stuck before the manifest is written (the loop
\* has an entry to visit or the write is next, whatever results holds), and it
\* ends with status 0 and a manifest holding the header and one row per
\* result, the header alone when there is no result; live mode leaves the
\* manifest file untouched as long as results is empty, and with no result
\* it ends with status 1.
C18_ZeroResults ==
  /\ prog = "rescan" =>
       /\ pc \in {"start", "scan", "done"}
       /\ (pc = "scan" /\ todo # <<>>) => \E e \in listing : e.name = Head(todo)
       /\ pc = "done" =>
            /\ manifest.written /\ ~manifest.raised
            /\ manifest.header = HeaderWithoutElapsed
            /\ Len(manifest.rows) = Len(results)
            /\ results = <<>> => manifest.rows = <<>>
            /\ exit_status = <<0>>
  /\ prog = "live" =>
       /\ results = <<>> => manifest = NoManifest
       /\ (pc = "done" /\ results = <<>>) => exit_status = <<1>>

\* a rescan of two directories, neither of which yields a result: the
\* manifest holds the header and no row
C18_Witness ==
  /\ prog = "rescan" /\ pc = "done"
  /\ Cardinality({e \in listing : e.isdir}) = 2
  /\ results = <<>>
  /\ manifest.written /\ manifest.rows = <<>> /\ Len(manifest.header) = 14
  /\ exit_status = <<0>>

----------------------------------------------------------------------------
(* Properties of run_experiment: the marker scan and the result            *)

\* the lines of StdoutPool that set run_id, with the value each leaves
RunIdLines ==
  { <<"R", "u", "n", " ", "I", "D", ":", " ", "r", "1">>, <<" ", " ", "R", "u", "n", " ", "I", "D", ":", " ", " ", "r", "2", " ">>, <<"R", "u", "n", " ", "I", "D", ":", " ">>,
    <<"R", "u", "n", " ", "I", "D", ":", " ", "r", "3", " ", "R", "e", "s", "u", "l", "t", "s", " ", "w", "r", "i", "t", "t", "e", "n", " ", "t", "o", ":", " ", "o", "u", "t", "/", "s", "i", "m", "/", "r", "2">>,
    <<"R", "e", "s", "u", "l", "t", "s", " ", "w", "r", "i", "t", "t", "e", "n", " ", "t", "o", ":", " ", "o", "u", "t", "/", "s", "i", "m", "/", "r", "1", " ", "R", "u", "n", " ", "I", "D", ":", " ", "r", "4">> }
RunIdOf(line) ==
  CASE line = <<"R", "u", "n", " ", "I", "D", ":", " ", "r", "1">> -> <<"r", "1">>
    [] line = <<" ", " ", "R", "u", "n", " ", "I", "D", ":", " ", " ", "r", "2", " ">> -> <<"r", "2">>
    [] line = <<"R", "u", "n", " ", "I", "D", ":", " ">> -> <<>>
    [] line = <<"R", "u", "n", " ", "I", "D", ":", " ", "r", "3", " ", "R", "e", "s", "u", "l", "t", "s", " ", "w", "r", "i", "t", "t", "e", "n", " ", "t", "o", ":", " ", "o", "u", "t", "/", "s", "i", "m", "/", "r", "2">>
         -> <<"r", "3", " ", "R", "e", "s", "u", "l", "t", "s", " ", "w", "r", "i", "t", "t", "e", "n", " ", "t", "o", ":", " ", "o", "u", "t", "/", "s", "i", "m", "/", "r", "2">>
    [] line = <<"R", "e", "s", "u", "l", "t", "s", " ", "w", "r", "i", "t", "t", "e", "n", " ", "t", "o", ":", " ", "o", "u", "t", "/", "s", "i", "m", "/", "r", "1", " ", "R", "u", "n", " ", "I", "D", ":", " ", "r", "4">> -> <<"r", "4">>
\* the lines that set out_path, with the value each leaves
OutPathLines ==
  { <<"R", "e", "s", "u", "l", "t", "s", " ", "w", "r", "i", "t", "t", "e", "n", " ", "t", "o", ":", " ", "o", "u", "t", "/", "s", "i", "m", "/", "r", "1">>, <<"R", "e", "s", "u", "l", "t", "s", " ", "w", "r", "i", "t", "t", "e", "n", " ", "t", "o", ":", " ", " ", "o", "u", "t", "/", "s", "i", "m", "/", "r", "2", " ">>,
    <<"R", "e", "s", "u", "l", "t", "s", " ", "w", "r", "i", "t", "t", "e", "n", " ", "t", "o", ":">> }
OutPathOf(line) ==
  CASE line = <<"R", "e", "s", "u", "l", "t", "s", " ", "w", "r", "i", "t", "t", "e", "n", " ", "t", "o", ":", " ", "o", "u", "t", "/", "s", "i", "m", "/", "r", "1">> -> <<"o", "u", "t", "/", "s", "i", "m", "/", "r", "1">>
    [] line = <<"R", "e", "s", "u", "l", "t", "s", " ", "w", "r", "i", "t", "t", "e", "n", " ", "t", "o", ":", " ", " ", "o", "u", "t", "/", "s", "i", "m", "/", "r", "2", " ">> -> <<"o", "u", "t", "/", "s", "i", "m", "/", "r", "2">>
    [] line = <<"R", "e", "s", "u", "l", "t", "s", " ", "w", "r", "i", "t", "t", "e", "n", " ", "t", "o", ":">> -> <<>>
\* what summary.txt of each result directory holds
SummaryOf(dir) ==
  CASE dir = <<"o", "u", "t", "/", "s", "i", "m", "/", "r", "1">> -> <<1234, 5678, 9999, 9000>>
    [] dir = <<"o", "u", "t", "/", "s", "i", "m", "/", "r", "2">> -> <<900, 950, 990, 10000>>

StdoutLines == Split(subproc.stdout, <<"\n">>)
Occurrences(L, lines) == {i \in 1..Len(L) : L[i] \in lines}
\* <<>> if no line of L sets run_id, else <<what the last such line leaves>>
LastRunId(L) ==
  LET at == Occurrences(L, RunIdLines)
  IN IF at = {} THEN <<>> ELSE <<RunIdOf(L[Max(at)])>>
LastOutPath(L) ==
  LET at == Occurrences(L, OutPathLines)
  IN IF at = {} THEN <<>> ELSE <<OutPathOf(L[Max(at)])>>
Found(v) == v # <<>> /\ v[1] # <<>>
Returned == prog = "scan" /\ pc = "returned"

\* C14: when the engine exits zero and its stdout gives both a run identifier
\* and a result directory, run_experiment returns one result: run_id and
\* out_dir are the trimmed texts after the two markers, the parameter
\* columns are the arguments of the call and the constants of the module,
\* the four summary fields are those of summary.txt in that out_dir, and
\* elapsed_s is the time measured.
C14_RunResult ==
  Returned =>
    LET id == LastRunId(StdoutLines)
        dir == LastOutPath(StdoutLines)
        a == attempted[1]
    IN (subproc.returncode = 0 /\ Found(id) /\ Found(dir)) =>
         /\ ~IsNone(run_ret[1])
         /\ run_ret[1] =
              [run_id |-> id[1],
               workload |-> a.workload,
               outstanding |-> a.outstanding,
               req_bytes |-> a.req_bytes,
               rsp_bytes |-> a.rsp_bytes,
               linkRate |-> "10Gbps",
               linkDelay |-> "50us",
               mtu |-> 1500,
               qdisc |-> "none",
               p50_ns |-> SummaryOf(dir[1])[1],
               p95_ns |-> SummaryOf(dir[1])[2],
               p99_ns |-> SummaryOf(dir[1])[3],
               completed |-> SummaryOf(dir[1])[4],
               out_dir |-> dir[1],
               elapsed_s |-> subproc.elapsed]
         /\ diag = <<>>

\* an output whose two marker lines carry blanks around the values: the
\* result names run r2 and holds the summary of out/sim/r2
C14_Witness ==
  /\ Returned
  /\ StdoutLines = <<<<"S", "t", "a", "r", "t", "i", "n", "g", " ", "s", "i", "m", "u", "l", "a", "t", "i", "o", "n">>, <<" ", " ", "R", "u", "n", " ", "I", "D", ":", " ", " ", "r", "2", " ">>,
                     <<"R", "e", "s", "u", "l", "t", "s", " ", "w", "r", "i", "t", "t", "e", "n", " ", "t", "o", ":", " ", " ", "o", "u", "t", "/", "s", "i", "m", "/", "r", "2", " ">>>>
  /\ attempted[1].workload = "rpc"
  /\ ~IsNone(run_ret[1])
  /\ run_ret[1].run_id = <<"r", "2">> /\ run_ret[1].out_dir = <<"o", "u", "t", "/", "s", "i", "m", "/", "r", "2">>
  /\ run_ret[1].p50_ns = 900 /\ run_ret[1].workload = "rpc"

\* main has ended after all the runs of the matrix, with the manifest
\* written or with the failure exit
Finished ==
  /\ pc = "done"
  /\ run_num = total_runs /\ Len(engine) = total_runs
  /\ \/ manifest.written /\ exit_status = <<0>>
     \/ ~manifest.written /\ exit_status = <<1>>
\* the k-th engine invocation has not returned
Outstanding(k) == pc = "engine" /\ run_num = k

\* C15: if every engine invocation returns, main ends after all the runs of
\* the matrix, with the manifest written or with the failure exit; if the
\* k-th invocation never returns, no later run is started, the manifest is
\* never written and main never exits.
C15_Termination ==
  /\ ([]<>(pc # "engine")) => <>Finished
  /\ \A k \in 1..MaxRuns :
       (<>[]Outstanding(k)) =>
         [](run_num <= k /\ ~manifest.written /\ exit_status = <<>>)

\* the second invocation of a matrix of four runs is outstanding
C15_Witness ==
  /\ prog = "live" /\ Outstanding(2)
  /\ total_runs = 4
  /\ Len(engine) = 1

\* the lines holding both markers
BothMarkerLines ==
  { <<"R", "u", "n", " ", "I", "D", ":", " ", "r", "3", " ", "R", "e", "s", "u", "l", "t", "s", " ", "w", "r", "i", "t", "t", "e", "n", " ", "t", "o", ":", " ", "o", "u", "t", "/", "s", "i", "m", "/", "r", "2">>,
    <<"R", "e", "s", "u", "l", "t", "s", " ", "w", "r", "i", "t", "t", "e", "n", " ", "t", "o", ":", " ", "o", "u", "t", "/", "s", "i", "m", "/", "r", "1", " ", "R", "u", "n", " ", "I", "D", ":", " ", "r", "4">> }

\* C17: run_experiment returns a result exactly when the last line holding
\* "Run ID:" and the last line holding "Results written to:" but not
\* "Run ID:" both leave a non-empty trimmed text, and these two texts are the
\* run_id and out_dir of the result.  A marker whose last such line leaves
\* nothing counts as absent even if an earlier line gave a value, and a line
\* holding both markers sets the run identifier only.
C17_MarkerScan ==
  (Returned /\ subproc.returncode = 0) =>
    LET L == StdoutLines
        id == LastRunId(L)
        dir == LastOutPath(L)
    IN /\ IsNone(run_ret[1]) <=> ~(Found(id) /\ Found(dir))
       /\ IsNone(run_ret[1]) =>
            diag = << <<"Warning: Could not extract run ID from output",
                        subproc.stdout, <<>> >> >>
       /\ ~IsNone(run_ret[1]) =>
            run_ret[1].run_id = id[1] /\ run_ret[1].out_dir = dir[1]
       /\ (\A i \in 1..Len(L) :
             Contains(L[i], <<"R", "e", "s", "u", "l", "t", "s", " ", "w", "r", "i", "t", "t", "e", "n", " ", "t", "o", ":">>) => L[i] \in BothMarkerLines)
            => IsNone(run_ret[1])

\* a run identifier, a result directory, then a "Run ID:" line with nothing
\* after the marker: no result
C17_Witness ==
  /\ Returned
  /\ StdoutLines = <<<<"R", "u", "n", " ", "I", "D", ":", " ", "r", "1">>, <<"R", "e", "s", "u", "l", "t", "s", " ", "w", "r", "i", "t", "t", "e", "n", " ", "t", "o", ":", " ", "o", "u", "t", "/", "s", "i", "m", "/", "r", "1">>, <<"R", "u", "n", " ", "I", "D", ":", " ">>>>
  /\ IsNone(run_ret[1])
  /\ diag # <<>>

====
